---------------------------- MODULE Spec2Model ----------------------------
(***************************************************************************)
(* A model of the statement parser of AutomatedBudgeting                   *)
(* (src/src/bankai/parser/hybrid_parser.py, class HybridPDFParser).        *)
(*                                                                         *)
(* Text is modelled character by character: a Python str is a sequence of  *)
(* one-character strings, a regular expression is a syntax tree that the   *)
(* operator Ends matches with Python's backtracking order (leftmost match, *)
(* greedy repeats first), and money is an integer number of cents.         *)
(***************************************************************************)
EXTENDS Integers, Sequences, FiniteSets, TLC

(***************************************************************************)
(* Characters and Python's str methods                                     *)
(***************************************************************************)
UpperSeq == <<"A","B","C","D","E","F","G","H","I","J","K","L","M","N","O","P","Q","R","S","T","U","V","W","X","Y","Z">>
LowerSeq == <<"a","b","c","d","e","f","g","h","i","j","k","l","m","n","o","p","q","r","s","t","u","v","w","x","y","z">>
DigitSeq == <<"0","1","2","3","4","5","6","7","8","9">>
UpperSet == {"A","B","C","D","E","F","G","H","I","J","K","L","M","N","O","P","Q","R","S","T","U","V","W","X","Y","Z"}
LowerSet == {"a","b","c","d","e","f","g","h","i","j","k","l","m","n","o","p","q","r","s","t","u","v","w","x","y","z"}
DigitSet == {"0","1","2","3","4","5","6","7","8","9"}
AlphaSet == UpperSet \cup LowerSet
\* \s of the re module, restricted to the white space a stripped line can hold
SpaceSet == {" ", "\t"}
\* \w of the re module
WordSet == AlphaSet \cup DigitSet \cup {"_"}

\* the position of c in seq
Pos(c, seq) == CHOOSE k \in DOMAIN seq : seq[k] = c
ToUpperMap == [c \in LowerSet |-> UpperSeq[Pos(c, LowerSeq)]]
ToLowerMap == [c \in UpperSet |-> LowerSeq[Pos(c, UpperSeq)]]
DigitValMap == [c \in DigitSet |-> Pos(c, DigitSeq) - 1]

MapCh(c, m) == IF c \in DOMAIN m THEN m[c] ELSE c
UpperCh(c) == MapCh(c, ToUpperMap)
LowerCh(c) == MapCh(c, ToLowerMap)

\* str.upper(), str.lower()
Upper(s) == [k \in DOMAIN s |-> UpperCh(s[k])]
Lower(s) == [k \in DOMAIN s |-> LowerCh(s[k])]

\* any(c.isalpha() for c in s), any(c.isupper() ...), str.isupper(), str.isalpha()
AnyAlpha(s) == \E k \in DOMAIN s : s[k] \in AlphaSet
StrIsUpper(s) == (\E k \in DOMAIN s : s[k] \in UpperSet) /\ (\A k \in DOMAIN s : s[k] \notin LowerSet)
StrIsAlpha(s) == s # <<>> /\ \A k \in DOMAIN s : s[k] \in AlphaSet

\* s[a:b] with 1-based inclusive bounds; empty when a > b
Slice(s, a, b) == IF a > b THEN <<>> ELSE SubSeq(s, a, b)
\* s[n:] (drop the first n characters)
Drop(s, n) == Slice(s, n + 1, Len(s))
\* s[:n]
Take(s, n) == Slice(s, 1, IF n < Len(s) THEN n ELSE Len(s))

\* seq[-1]
Last(seq) == seq[Len(seq)]

SetMin(S) == CHOOSE x \in S : \A y \in S : x <= y
SetMax(S) == CHOOSE x \in S : \A y \in S : x >= y

\* str.strip(chars) for a set of characters; str.strip() strips white space
StripSet(s, cs) ==
    LET keep == {k \in DOMAIN s : s[k] \notin cs}
    IN  IF keep = {} THEN <<>> ELSE SubSeq(s, SetMin(keep), SetMax(keep))
LStripSet(s, cs) ==
    LET keep == {k \in DOMAIN s : s[k] \notin cs}
    IN  IF keep = {} THEN <<>> ELSE SubSeq(s, SetMin(keep), Len(s))
Strip(s) == StripSet(s, SpaceSet)

\* s.startswith(p), s.endswith(p), p in s
StartsAt(s, p, i) == i + Len(p) - 1 <= Len(s) /\ \A k \in DOMAIN p : s[i + k - 1] = p[k]
StartsWith(s, p) == StartsAt(s, p, 1)
EndsWith(s, p) == Len(p) <= Len(s) /\ StartsAt(s, p, Len(s) - Len(p) + 1)
Contains(s, p) == \E i \in 1..(Len(s) + 1) : StartsAt(s, p, i)
\* s.find(p) as a 1-based index, 0 when absent
Find(s, p) ==
    LET at == {i \in 1..(Len(s) + 1) : StartsAt(s, p, i)}
    IN  IF at = {} THEN 0 ELSE SetMin(at)

\* s.replace(c, '') for one character c
RemoveCh(s, c) == SelectSeq(s, LAMBDA x : x # c)

\* the k-th member of a set of integers in increasing order
Nth(S, k) == CHOOSE x \in S : Cardinality({y \in S : y < x}) = k - 1

\* s.split(): the words between runs of white space
Split(s) ==
    LET starts == {i \in DOMAIN s : s[i] \notin SpaceSet /\ (i = 1 \/ s[i - 1] \in SpaceSet)}
        stops == {i \in DOMAIN s : s[i] \notin SpaceSet /\ (i = Len(s) \/ s[i + 1] \in SpaceSet)}
    IN  [k \in 1..Cardinality(starts) |-> SubSeq(s, Nth(starts, k), Nth(stops, k))]

\* s.split(sep) for a one-character separator: always at least one part
SplitOn(s, sep) ==
    LET seps == {i \in DOMAIN s : s[i] = sep}
        n == Cardinality(seps)
        from(k) == IF k = 1 THEN 1 ELSE Nth(seps, k - 1) + 1
        to(k) == IF k = n + 1 THEN Len(s) ELSE Nth(seps, k) - 1
    IN  [k \in 1..(n + 1) |-> Slice(s, from(k), to(k))]

\* sep.join(parts)
RECURSIVE Join(_, _)
Join(parts, sep) ==
    IF parts = <<>> THEN <<>>
    ELSE IF Len(parts) = 1 THEN parts[1]
    ELSE parts[1] \o sep \o Join(Tail(parts), sep)

\* ' '.join(s.split())
Squeeze(s) == Join(Split(s), <<" ">>)

\* str.title(): a letter is upper-cased after a non-letter and lower-cased after a letter
Title(s) == [k \in DOMAIN s |-> IF s[k] \notin AlphaSet THEN s[k] ELSE IF k > 1 /\ s[k - 1] \in AlphaSet THEN LowerCh(s[k]) ELSE UpperCh(s[k])]

\* int(s) for a string of digits, str(n) for n >= 0, str.zfill(w)
RECURSIVE ParseInt(_)
ParseInt(s) == IF s = <<>> THEN 0 ELSE 10 * ParseInt(Slice(s, 1, Len(s) - 1)) + DigitValMap[s[Len(s)]]
IsDigits(s) == s # <<>> /\ \A k \in DOMAIN s : s[k] \in DigitSet
RECURSIVE IntStr(_)
IntStr(n) == IF n < 10 THEN <<DigitSeq[n + 1]>> ELSE IntStr(n \div 10) \o <<DigitSeq[(n % 10) + 1]>>
RECURSIVE ZFill(_, _)
ZFill(s, w) == IF Len(s) >= w THEN s ELSE ZFill(<<"0">> \o s, w)

(***************************************************************************)
(* Regular expressions (the re module)                                     *)
(*                                                                         *)
(* Ends(r, s, i, ic) is the sequence of positions at which a match of r    *)
(* that starts at position i of s can end, in the order in which Python's  *)
(* backtracking matcher tries them; its head is the match re returns.      *)
(* ic is re.IGNORECASE.                                                    *)
(***************************************************************************)
Lit(cs) == [t |-> "lit", cs |-> cs]
Cls(set) == [t |-> "cls", set |-> set]
NCls(set) == [t |-> "ncls", set |-> set]
Dot == [t |-> "any"]
Bol == [t |-> "bol"]
Eol == [t |-> "eol"]
WordB == [t |-> "wb"]
Look(x) == [t |-> "look", x |-> x]
Cat(xs) == [t |-> "seq", xs |-> xs]
Alt(xs) == [t |-> "alt", xs |-> xs]
Rep(x, lo, hi) == [t |-> "rep", x |-> x, lo |-> lo, hi |-> hi, greedy |-> TRUE]
RepInf(x, lo) == [t |-> "rep", x |-> x, lo |-> lo, hi |-> -1, greedy |-> TRUE]
RepLazy(x, lo, hi) == [t |-> "rep", x |-> x, lo |-> lo, hi |-> hi, greedy |-> FALSE]
RepLazyInf(x, lo) == [t |-> "rep", x |-> x, lo |-> lo, hi |-> -1, greedy |-> FALSE]

\* equality of characters and membership in a character class under re.IGNORECASE
SamePair(p) == p[1] = p[2]
ChEq(a, b, ic) == a = b \/ (ic /\ SamePair(Lower(<<a, b>>)))
InCls(c, set, ic) == c \in set \/ (ic /\ MapCh(c, ToLowerMap @@ ToUpperMap) \in set)
IsWordAt(s, i) == i >= 1 /\ i <= Len(s) /\ s[i] \in WordSet
\* \b at position i: exactly one of the characters around it is a word character
AtWordBoundary(s, i) == Cardinality({k \in {i - 1, i} : IsWordAt(s, k)}) = 1

RECURSIVE LitAt(_, _, _, _, _)
LitAt(cs, k, s, i, ic) ==
    IF k > Len(cs) THEN TRUE
    ELSE IF i > Len(s) \/ ~ChEq(s[i], cs[k], ic) THEN FALSE
    ELSE LitAt(cs, k + 1, s, i + 1, ic)

\* a pattern that consumes exactly one character, and whether c is such a character
IsSingle(x) == x.t \in {"cls", "ncls", "any"}
CharMatch(x, c, ic) == x.t = "any" \/ (InCls(c, x.set, ic) <=> x.t = "cls")
\* the length of the run of characters matching x from position i
Run(x, s, i, ic) == SetMin({k \in i..(Len(s) + 1) : k > Len(s) \/ ~CharMatch(x, s[k], ic)}) - i
\* the ends i+lo .. i+top of a run, the longest first when greedy
RunSpan(i, lo, top, greedy) ==
    IF top < lo THEN <<>>
    ELSE [k \in 1..(top - lo + 1) |-> IF greedy THEN i + top - (k - 1) ELSE i + lo + (k - 1)]
AtMost(n, hi) == IF hi = -1 \/ n < hi THEN n ELSE hi
\* x{lo,hi} for a one-character x
RunEnds(x, s, i, lo, hi, greedy, ic) == RunSpan(i, lo, AtMost(Run(x, s, i, ic), hi), greedy)
\* the alternatives in the order the matcher tries them
InOrder(greedy, more, here) == IF greedy THEN more \o here ELSE here \o more

RECURSIVE Ends(_, _, _, _)
RECURSIVE EndsFrom(_, _, _, _, _)
RECURSIVE SeqEnds(_, _, _, _, _)
RECURSIVE AltEnds(_, _, _, _, _)
RECURSIVE RepEnds(_, _, _, _, _, _, _)
RECURSIVE RepMore(_, _, _, _, _, _, _, _)

\* the ends of x from each start position of ps, in order
EndsFrom(x, s, ps, j, ic) ==
    IF j > Len(ps) THEN <<>> ELSE Ends(x, s, ps[j], ic) \o EndsFrom(x, s, ps, j + 1, ic)

SeqEnds(xs, k, s, ps, ic) ==
    IF k > Len(xs) \/ ps = <<>> THEN ps ELSE SeqEnds(xs, k + 1, s, EndsFrom(xs[k], s, ps, 1, ic), ic)

AltEnds(xs, k, s, i, ic) ==
    IF k > Len(xs) THEN <<>> ELSE Ends(xs[k], s, i, ic) \o AltEnds(xs, k + 1, s, i, ic)

\* one more repetition from each of the ends es of the previous one, then the rest
RepMore(x, s, es, j, lo, hi, greedy, ic) ==
    IF j > Len(es) THEN <<>>
    ELSE RepEnds(x, s, es[j], IF lo > 0 THEN lo - 1 ELSE 0, IF hi = -1 THEN -1 ELSE hi - 1, greedy, ic)
         \o RepMore(x, s, es, j + 1, lo, hi, greedy, ic)

\* x{lo,hi}: the repetitions that consume something, and stopping here when lo allows
RepEnds(x, s, i, lo, hi, greedy, ic) ==
    InOrder(greedy,
            RepMore(x, s, SelectSeq(IF hi = 0 THEN <<>> ELSE Ends(x, s, i, ic), LAMBDA e : e > i),
                    1, lo, hi, greedy, ic),
            IF lo <= 0 THEN <<i>> ELSE <<>>)

Ends(r, s, i, ic) ==
    CASE r.t = "lit" -> IF LitAt(r.cs, 1, s, i, ic) THEN <<i + Len(r.cs)>> ELSE <<>>
      [] IsSingle(r) -> IF i <= Len(s) /\ CharMatch(r, s[i], ic) THEN <<i + 1>> ELSE <<>>
      [] r.t = "bol" -> IF i = 1 THEN <<i>> ELSE <<>>
      [] r.t = "eol" -> IF i = Len(s) + 1 THEN <<i>> ELSE <<>>
      [] r.t = "wb" -> IF AtWordBoundary(s, i) THEN <<i>> ELSE <<>>
      [] r.t = "look" -> IF Ends(r.x, s, i, ic) # <<>> THEN <<i>> ELSE <<>>
      [] r.t = "seq" -> SeqEnds(r.xs, 1, s, <<i>>, ic)
      [] r.t = "alt" -> AltEnds(r.xs, 1, s, i, ic)
      [] r.t = "rep" -> IF IsSingle(r.x) THEN RunEnds(r.x, s, i, r.lo, r.hi, r.greedy, ic)
                        ELSE RepEnds(r.x, s, i, r.lo, r.hi, r.greedy, ic)

\* the end of the match of r that starts at position i of s, 0 when there is none
First(es) == IF es = <<>> THEN 0 ELSE es[1]
MatchAt(r, s, i, ic) == First(Ends(r, s, i, ic))
\* re.match(r, s): the end position of the match at the start of s, 0 when none
MatchEnd(r, s, ic) == MatchAt(r, s, 1, ic)
\* bool(re.match(r, s))
Matches(r, s, ic) == MatchAt(r, s, 1, ic) # 0

\* every <<start, end>> at which r matches in s, and the leftmost of them from i on
Hits(r, s, ic) == {p \in {<<j, MatchAt(r, s, j, ic)>> : j \in 1..(Len(s) + 1)} : p[2] # 0}
Leftmost(hits) == IF hits = {} THEN <<>> ELSE CHOOSE p \in hits : \A q \in hits : p[1] <= q[1]
LeftmostFrom(hits, i) == Leftmost({p \in hits : p[1] >= i})
\* re.search(r, s): <<start, end>> of the leftmost match, <<>> when none
Search(r, s, ic) == LeftmostFrom(Hits(r, s, ic), 1)

\* replacement templates; m is the matched text.  Group1 is r'\1' for a pattern
\* whose group 1 is its first character; Groups12(mid) is r'\1<mid>\2' for a
\* pattern whose groups are its first and its last character
Const(cs) == [k |-> "const", cs |-> cs]
Group1 == [k |-> "g1", cs |-> <<>>]
Groups12(mid) == [k |-> "g12", cs |-> mid]
Expand(repl, m) ==
    CASE repl.k = "const" -> repl.cs
      [] repl.k = "g1" -> <<m[1]>>
      [] repl.k = "g12" -> <<m[1]>> \o repl.cs \o <<m[Len(m)]>>

\* re.sub(r, repl, s): every non-overlapping non-empty match, left to right
RECURSIVE SubFrom(_, _, _, _)
SubNext(repl, s, hits, i, m) ==
    IF m = <<>> \/ m[2] = m[1] THEN Slice(s, i, Len(s))
    ELSE Slice(s, i, m[1] - 1) \o Expand(repl, Slice(s, m[1], m[2] - 1)) \o SubFrom(repl, s, hits, m[2])
SubFrom(repl, s, hits, i) == SubNext(repl, s, hits, i, LeftmostFrom(hits, i))
Sub(r, repl, s, ic) == SubFrom(repl, s, Hits(r, s, ic), 1)

\* s.replace(p, q) for a non-empty p
Replace(s, p, q) == Sub(Lit(p), Const(q), s, FALSE)

\* the matches of re.finditer(r, s) as <<start, end>> pairs (non-empty matches)
RECURSIVE FindFrom(_, _)
FindNext(hits, m) == IF m = <<>> \/ m[2] = m[1] THEN <<>> ELSE <<m>> \o FindFrom(hits, m[2])
FindFrom(hits, i) == FindNext(hits, LeftmostFrom(hits, i))
FindIter(r, s, ic) == FindFrom(Hits(r, s, ic), 1)
(***************************************************************************)
(* Merchant Name Normalizer: the pattern phase of _clean_merchant_name     *)
(* (hybrid_parser.py 1307-1450).  Names hold no line break, so $ is the    *)
(* end of the name.                                                        *)
(***************************************************************************)
Step(r, repl, ic) == [r |-> r, repl |-> repl, ic |-> ic]

\* r'^\$[\d,]+\.?\d*\s+AT\s+\d{1,2}:\d{2}'
AtmPattern == Cat(<<Bol, Lit(<<"$">>), RepInf(Cls(DigitSet \cup {","}), 1), Rep(Lit(<<".">>), 0, 1), RepInf(Cls(DigitSet), 0), RepInf(Cls(SpaceSet), 1), Lit(<<"A","T">>), RepInf(Cls(SpaceSet), 1), Rep(Cls(DigitSet), 1, 2), Lit(<<":">>), Rep(Cls(DigitSet), 2, 2)>>)

\* lines 1327-1358, in order: card numbers, artifacts and prefixes, transaction type
\* prefixes, leading digits, store numbers, trailing codes, phone numbers, reference codes
NoiseSteps ==
    << Step(Cat(<<WordB, Lit(<<"X">>), RepInf(Lit(<<"X">>), 1), Rep(Cls(DigitSet), 4, 4), WordB>>), Const(<<>>), FALSE),
       Step(Cat(<<Bol, Alt(<<Lit(<<"G","i","n","o">>), Lit(<<"J","a","i","s","o","n">>), Lit(<<"j","a","z","i","o","n","n">>)>>), RepInf(Cls(SpaceSet), 1)>>), Const(<<>>), TRUE),
       Step(Cat(<<Bol, Alt(<<Lit(<<"P","a","y","m","e","n","t",".","A","C","H">>), Lit(<<"P","a","y","m","e","n","t",".">>), Cat(<<Lit(<<"A","C","H">>), RepInf(Cls(SpaceSet), 1)>>)>>)>>), Const(<<>>), TRUE),
       Step(Cat(<<Bol, Cls({"=","-",">","<"}), RepInf(Cls(SpaceSet), 1)>>), Const(<<>>), FALSE),
       Step(Cat(<<Bol, Alt(<<Cat(<<Lit(<<"R","E","C","U","R">>), Rep(Lit(<<".">>), 0, 1), RepInf(Cls(SpaceSet), 0), Lit(<<"P","U","R","C","H","A","S","E">>), Rep(Lit(<<".">>), 0, 1), RepInf(Cls(SpaceSet), 0)>>), Cat(<<Lit(<<"P","O","S">>), RepInf(Cls(SpaceSet), 1), Rep(Cat(<<Lit(<<"P","U","R","C","H","A","S","E">>), RepInf(Cls(SpaceSet), 1)>>), 0, 1), Lit(<<"A","T">>), RepInf(Cls(SpaceSet), 1)>>), Cat(<<Lit(<<"P","U","R","C","H","A","S","E">>), RepInf(Cls(SpaceSet), 1), Lit(<<"A","T">>), RepInf(Cls(SpaceSet), 1)>>)>>)>>), Const(<<>>), TRUE),
       Step(Cat(<<RepInf(Cls(SpaceSet), 1), Lit(<<"R","E","C","U","R">>), RepInf(Cls(SpaceSet), 1), Lit(<<"P","U","R","C","H","A","S","E">>), Rep(Lit(<<".">>), 0, 1), RepInf(Cls(SpaceSet), 0)>>), Const(<<" ">>), TRUE),
       Step(Cat(<<Bol, Rep(Cls(DigitSet), 1, 2), RepInf(Cls(SpaceSet), 1)>>), Const(<<>>), FALSE),
       Step(Cat(<<Cls(WordSet), RepInf(Cls(DigitSet), 3), Look(Alt(<<Cls(SpaceSet), Eol>>))>>), Group1, FALSE),
       Step(Cat(<<RepInf(Cls(SpaceSet), 1), Rep(Cls(UpperSet \cup DigitSet), 1, 2), Eol>>), Const(<<>>), FALSE),
       Step(Cat(<<RepInf(Cls(SpaceSet), 0), Rep(Cls(DigitSet), 3, 3), Lit(<<"-">>), Rep(Cls(DigitSet), 3, 3), Lit(<<"-">>), Rep(Cls(DigitSet), 4, 4)>>), Const(<<>>), FALSE),
       Step(Cat(<<RepInf(Cls(SpaceSet), 1), Rep(Cls(DigitSet), 10, 10), WordB>>), Const(<<>>), FALSE),
       Step(Cat(<<RepInf(Cls(SpaceSet), 1), Rep(Cls(DigitSet), 3, 3), Lit(<<"-">>), Rep(Cls(DigitSet), 7, 7)>>), Const(<<>>), FALSE),
       Step(Cat(<<RepInf(Cls(SpaceSet), 1), RepInf(Cls(UpperSet \cup DigitSet), 10), WordB>>), Const(<<>>), FALSE),
       Step(Cat(<<RepInf(Cls(SpaceSet), 1), RepInf(Cls(DigitSet \cup {"a","b","c","d","e","f"}), 8), WordB>>), Const(<<>>), FALSE),
       Step(Cat(<<RepInf(Cls(SpaceSet), 1), RepInf(Cls(DigitSet), 8), WordB>>), Const(<<>>), FALSE) >>

\* processor_patterns (1362-1368), in the dict's order
ProcessorPatterns ==
    << [pattern |-> Cat(<<Bol, Lit(<<"S","Q","S","P">>), RepInf(Cls(SpaceSet), 0), Lit(<<"*">>)>>), action |-> "return", value |-> <<"S","q","u","a","r","e","s","p","a","c","e">>],
       [pattern |-> Cat(<<Bol, Lit(<<"C","A","S","H">>), RepInf(Cls(SpaceSet), 1), Lit(<<"A","P","P">>), RepInf(Cls(SpaceSet), 0), Lit(<<"*">>)>>), action |-> "return", value |-> <<"C","a","s","h"," ","A","p","p">>],
       [pattern |-> Cat(<<Bol, Lit(<<"B","P">>), Cls(DigitSet \cup {"#"})>>), action |-> "return", value |-> <<"B","P">>],
       [pattern |-> Cat(<<Bol, Lit(<<"S","Q">>), RepInf(Cls(SpaceSet), 0), Lit(<<"*">>)>>), action |-> "extract", value |-> Cat(<<Lit(<<"S","Q">>), RepInf(Cls(SpaceSet), 0), Lit(<<"*">>), RepInf(Cls(SpaceSet), 0), Cat(<<Cls(UpperSet), RepInf(Cls(UpperSet \cup DigitSet \cup SpaceSet \cup {"&"}), 1)>>)>>)],
       [pattern |-> Cat(<<Bol, Lit(<<"W","L">>), RepInf(Cls(SpaceSet), 0), Lit(<<"*">>)>>), action |-> "strip", value |-> Cat(<<Bol, Lit(<<"W","L">>), RepInf(Cls(SpaceSet), 0), Lit(<<"*">>), RepInf(Cls(SpaceSet), 0)>>)] >>
\* the part of the extract value before its group: SQ\s*\*\s*
SqGroupPrefix == Cat(<<Lit(<<"S","Q">>), RepInf(Cls(SpaceSet), 0), Lit(<<"*">>), RepInf(Cls(SpaceSet), 0)>>)

\* lines 1387-1416
LocationSteps ==
    << Step(Cat(<<RepInf(Cls(SpaceSet), 1), Lit(<<"W","E","B">>), Cls({" ","_"}), Lit(<<"P">>), Alt(<<Cat(<<Lit(<<"M","T">>), Rep(Lit(<<"S">>), 0, 1)>>), Lit(<<"A","Y">>)>>), RepInf(Cls(SpaceSet), 1), RepInf(NCls(SpaceSet), 1)>>), Const(<<>>), TRUE),
       Step(Cat(<<RepInf(Cls(SpaceSet), 0), Lit(<<"#">>), RepInf(Cls(SpaceSet), 0), RepInf(Cls(DigitSet), 1)>>), Const(<<>>), FALSE),
       Step(Cat(<<RepInf(Cls(SpaceSet \cup {"-"}), 1), RepInf(Cls(UpperSet), 5), Eol>>), Const(<<>>), FALSE),
       Step(Cat(<<RepInf(Cls(SpaceSet), 1), Rep(Cls(DigitSet), 3, 3), Lit(<<"-">>), Rep(Cls(DigitSet), 7, 7), Eol>>), Const(<<>>), FALSE),
       Step(Cat(<<Lit(<<"%">>), RepInf(NCls({"%"}), 1), Lit(<<"%">>)>>), Const(<<>>), FALSE),
       Step(Cat(<<RepInf(Cls(SpaceSet), 1), Rep(Cls(DigitSet), 4, 5), Eol>>), Const(<<>>), FALSE),
       Step(Cat(<<RepInf(Cls(SpaceSet), 1), Cls(UpperSet), RepInf(Cls(LowerSet), 1), RepInf(Cls(SpaceSet), 1), Rep(Cls(UpperSet), 2, 2), Eol>>), Const(<<>>), FALSE),
       Step(Cat(<<RepInf(Cls(SpaceSet), 1), Rep(Cls(UpperSet), 2, 2), RepInf(Cls(SpaceSet), 0), RepInf(Cls(DigitSet), 0), Eol>>), Const(<<>>), FALSE),
       Step(Cat(<<Bol, Alt(<<Lit(<<"T","S","T">>), Lit(<<"S","Q">>), Lit(<<"P","A","W">>)>>), RepInf(Cls(SpaceSet), 0), Lit(<<"-">>), RepInf(Cls(SpaceSet), 0)>>), Const(<<>>), TRUE),
       Step(Cat(<<RepInf(Cls(SpaceSet), 1), RepInf(Cls(DigitSet), 1), RepInf(Cls(SpaceSet), 1), Rep(Cls(UpperSet), 2, 2), RepInf(Cls(SpaceSet), 1), RepInf(Cls(DigitSet), 1), Eol>>), Const(<<>>), FALSE),
       Step(Cat(<<RepInf(Cls(SpaceSet), 1), Rep(Cls(DigitSet), 3, 3), Lit(<<"-">>), RepInf(Cls(DigitSet), 1), Eol>>), Const(<<>>), FALSE),
       Step(Cat(<<RepInf(Cls(SpaceSet), 1), Lit(<<"O","I","L">>), Eol>>), Const(<<>>), TRUE) >>

\* lines 1425-1436
TrailingSteps ==
    << Step(Cat(<<RepInf(Cls(SpaceSet), 1), Lit(<<"H","e","l","p",".">>), RepInf(Cls(WordSet), 1), Lit(<<".","C","o","m">>)>>), Const(<<>>), TRUE),
       Step(Cat(<<RepInf(Cls(SpaceSet), 1), Lit(<<"H","w","y">>), RepInf(Cls(SpaceSet), 1), RepInf(Cls(DigitSet), 1)>>), Const(<<>>), TRUE),
       Step(Cat(<<RepInf(Cls(SpaceSet), 1), Lit(<<"-">>), RepInf(Cls(SpaceSet), 0), Eol>>), Const(<<>>), FALSE),
       Step(Cat(<<Bol, RepInf(Cls(SpaceSet), 0), Lit(<<"-">>), RepInf(Cls(SpaceSet), 1)>>), Const(<<>>), FALSE),
       Step(Cat(<<RepInf(Cls(SpaceSet), 1), Cls(UpperSet), RepInf(Cls(DigitSet), 1), Cls(UpperSet), Eol>>), Const(<<>>), FALSE),
       Step(Cat(<<RepInf(Cls(SpaceSet), 1), Rep(Cls(UpperSet), 1, 2), Eol>>), Const(<<>>), FALSE) >>

WhitespaceRun == RepInf(Cls(SpaceSet), 1)
TrailingNumber == Cat(<<RepInf(Cls(SpaceSet), 1), RepInf(Cls(DigitSet), 1), Eol>>)
EmbeddedAnd == Cat(<<Cls(UpperSet), Lit(<<"A","N","D">>), Cls(UpperSet)>>)
LowerThenUpper == Cat(<<Cls(LowerSet), Cls(UpperSet)>>)

RECURSIVE ApplySteps(_, _, _)
ApplySteps(steps, k, name) ==
    IF k > Len(steps) \/ name = <<>> THEN name
    ELSE ApplySteps(steps, k + 1, Sub(steps[k].r, steps[k].repl, name, steps[k].ic))

\* match.group(1).strip() for the match m of the extract value (1378)
SquareMerchant(name, m) == Strip(Slice(name, MatchAt(SqGroupPrefix, name, m[1], TRUE), m[2] - 1))
\* lines 1376-1380: match is m
ExtractMerchant(p, name, m) ==
    IF m # <<>> THEN SquareMerchant(name, m) ELSE Strip(Sub(p.pattern, Const(<<>>), name, TRUE))
\* the rule p whose pattern matched (1373-1384): [ret |-> TRUE, name] when it returns
\* its literal, otherwise the name it extracts or strips
ApplyProcessor(p, name) ==
    CASE p.action = "return" -> [ret |-> TRUE, name |-> p.value]
      [] p.action = "extract" -> [ret |-> FALSE, name |-> ExtractMerchant(p, name, Search(p.value, name, TRUE))]
      [] p.action = "strip" -> [ret |-> FALSE, name |-> Strip(Sub(p.value, Const(<<>>), name, TRUE))]
\* the loop over processor_patterns (1371-1384): the first rule that matches decides
RECURSIVE ProcessPaymentProcessors(_, _, _)
ProcessPaymentProcessors(patterns, k, name) ==
    IF k > Len(patterns) THEN [ret |-> FALSE, name |-> name]
    ELSE IF Matches(patterns[k].pattern, name, TRUE) THEN ApplyProcessor(patterns[k], name)
    ELSE ProcessPaymentProcessors(patterns, k + 1, name)

\* lines 1419-1422: "WINRED* TRUMP" -> "WINRED TRUMP"
JoinAtAsterisk(name) ==
    IF Contains(name, <<"*">>)
    THEN Strip(Slice(name, 1, Find(name, <<"*">>) - 1)) \o <<" ">> \o Strip(Drop(name, Find(name, <<"*">>)))
    ELSE name

\* lines 1446-1450
Decompress(name) ==
    IF Len(name) > 15 /\ StrIsUpper(name) /\ ~Contains(Take(name, 10), <<" ">>)
    THEN Sub(LowerThenUpper, Groups12(<<" ">>), Sub(EmbeddedAnd, Groups12(<<" ","A","N","D"," ">>), name, FALSE), FALSE)
    ELSE name

\* lines 1387-1450, after the processor rules left proc
AfterProcessors(proc) ==
    IF proc.ret THEN proc
    ELSE [ret |-> FALSE,
          name |-> Decompress(Sub(TrailingNumber, Const(<<>>),
                       Strip(Sub(WhitespaceRun, Const(<<" ">>),
                           ApplySteps(TrailingSteps, 1,
                               JoinAtAsterisk(ApplySteps(LocationSteps, 1, proc.name))), FALSE)), FALSE))]

\* PHASE 1 of _clean_merchant_name for a name of length >= 3 (lines 1322-1450):
\* [ret |-> TRUE, name] when the function returns at once with name
PatternPhase(name) ==
    IF Matches(AtmPattern, name, FALSE) THEN [ret |-> TRUE, name |-> <<"A","T","M"," ","W","i","t","h","d","r","a","w","a","l">>]
    ELSE AfterProcessors(ProcessPaymentProcessors(ProcessorPatterns, 1, ApplySteps(NoiseSteps, 1, name)))

\* PHASE 3 of _clean_merchant_name (1462-1483): compound-word spacing and title case
AcronymAllowlist == {<<"A","T","M">>, <<"P","O","S">>, <<"A","C","H">>, <<"U","S","A">>, <<"L","L","C">>, <<"I","N","C">>, <<"B","P">>, <<"N","D">>, <<"M","N">>}
TitleWord(word) ==
    IF Upper(word) \in AcronymAllowlist THEN Upper(word)
    ELSE IF Len(word) > 2 /\ StrIsUpper(word) THEN Title(word)
    ELSE word
TitleWords(words) == Join([k \in DOMAIN words |-> TitleWord(words[k])], <<" ">>)
OrOriginal(joined, original) == IF Len(joined) < 3 THEN original ELSE Strip(joined)
FallbackTitleCase(name, original) ==
    OrOriginal(TitleWords(Split(Sub(LowerThenUpper, Groups12(<<" ">>), name, FALSE))), original)
(***************************************************************************)
(* Merchant Name Normalizer: the model-assisted phase.                     *)
(*                                                                         *)
(* One HTTP call to the model service is an outcome record:                *)
(*   kind "raise"     requests.post raises (network error, timeout)        *)
(*   kind "status"    a response whose status is not 200, with its body    *)
(*   kind "badjson"   status 200, the body is not usable JSON              *)
(*   kind "ok"        status 200, the 'response' field of the body is text *)
(* The prompt text, the model identifier and the request options only      *)
(* decide what the service answers, which the model leaves open.           *)
(***************************************************************************)
\* Python's None where a str is expected
NoneStr == <<"<None>">>

Raise == [kind |-> "raise", text |-> <<>>]
Status500 == [kind |-> "status", text |-> <<"I","n","t","e","r","n","a","l"," ","S","e","r","v","e","r"," ","E","r","r","o","r">>]
BadJson == [kind |-> "badjson", text |-> <<>>]
Ok(text) == [kind |-> "ok", text |-> text]

ResponseMarkers == <<<<" ","M","e","r","c","h","a","n","t",":">>, <<" ","B","u","s","i","n","e","s","s",":">>, <<" ","N","a","m","e",":">>, <<" ","C","l","e","a","n"," ","n","a","m","e",":">>, <<" ","I","n","p","u","t",":">>, <<" ","T","r","a","n","s","a","c","t","i","o","n",":">>, <<" ","E","x","a","m","p","l","e","s",":">>, <<" ","R","E","M","O","V","E">>>>
ArtifactPrefixes == <<<<"S","Q","*">>, <<"S","Q"," ","*">>, <<"T","S","T","*">>, <<"T","S","T"," ","*">>, <<"W","L","*">>, <<"W","L"," ","*">>, <<"Y","S","I","*">>, <<"Y","S","I"," ","*">>, <<"X","X">>, <<"P","O","S"," ">>>>
KnownChains == {<<"H","o","m","e">>, <<"D","e","p","o","t">>, <<"C","a","s","h">>, <<"A","p","p">>, <<"G","r","a","n","d">>, <<"J","u","n","c","t","i","o","n">>, <<"C","o","b","o","r","n","s">>, <<"C","o","b","o","r","n">>, <<"W","i","n","e">>, <<"M","o","r","e">>}
PrefixesToRemove ==
    <<<<"O","u","t","p","u","t",":">>, <<"A","n","s","w","e","r",":">>, <<"R","e","s","u","l","t",":">>, <<"C","l","e","a","n"," ","n","a","m","e",":">>, <<"B","u","s","i","n","e","s","s",":">>, <<"B","u","s","i","n","e","s","s"," ","n","a","m","e",":">>,
      <<"N","a","m","e",":">>, <<"T","h","e"," ","b","u","s","i","n","e","s","s"," ","n","a","m","e"," ","i","s",":">>, <<"M","e","r","c","h","a","n","t",":">>, <<"E","x","t","r","a","c","t",":">>, <<"T","r","a","n","s","a","c","t","i","o","n",":">>,
      <<"C","r","i","t","i","c","a","l"," ","r","u","l","e","s",":">>, <<"C","r","i","t","i","c","a","l"," ","R","u","l","e","s"," ","A","p","p","l","i","e","d",":">>, <<"R","u","l","e","s"," ","f","o","r"," ","e","x","t","r","a","c","t","i","o","n",":">>,
      <<"E","x","a","m","p","l","e","s",":">>, <<"Y","o","u"," ","a","r","e">>, <<"B","a","s","e","d"," ","o","n">>, <<"S","i","m","p","l","i","f","y",":">>, <<"I","n","p","u","t",":">>, <<"R","E","M","O","V","E"," ","A","L","L",":">>,
      <<"K","E","E","P",":">>, <<"M","U","S","T"," ","R","E","M","O","V","E",":">>, <<"S","T","A","N","D","A","R","D","I","Z","E",":">>>>
EchoKeywords ==
    {<<"t","r","a","n","s","a","c","t","i","o","n"," ","t","e","x","t">>, <<"e","x","t","r","a","c","t"," ","t","h","e">>, <<"b","u","s","i","n","e","s","s"," ","n","a","m","e">>, <<"o","n","e"," ","l","i","n","e">>,
     <<"m","e","r","c","h","a","n","t"," ","n","a","m","e">>, <<"s","i","m","p","l","i","f","y"," ","t","h","i","s">>, <<"r","e","m","o","v","e",":">>, <<"f","i","x",":">>, <<"r","e","m","o","v","e"," ","a","l","l">>,
     <<"m","u","s","t"," ","r","e","m","o","v","e">>, <<"k","e","e","p",":">>, <<"s","t","a","n","d","a","r","d","i","z","e",":">>}

\* lines 411-412: the first line of a multi-line answer
FirstLine(result) == IF Contains(result, <<"\n">>) THEN Strip(SplitOn(result, "\n")[1]) ELSE result

\* lines 417-420: cut at the first marker of the list that occurs
RECURSIVE CutAtMarker(_, _, _)
CutAtMarker(result, markers, k) ==
    IF k > Len(markers) THEN result
    ELSE IF Contains(result, markers[k]) THEN Strip(Slice(result, 1, Find(result, markers[k]) - 1))
    ELSE CutAtMarker(result, markers, k + 1)

\* lines 424-426
RECURSIVE StripArtifactPrefixes(_, _, _)
StripArtifactPrefixes(result, prefixes, k) ==
    IF k > Len(prefixes) THEN result
    ELSE IF StartsWith(Upper(result), Upper(prefixes[k]))
         THEN StripArtifactPrefixes(Strip(Drop(result, Len(prefixes[k]))), prefixes, k + 1)
    ELSE StripArtifactPrefixes(result, prefixes, k + 1)

\* line 429
StripAsterisks(result) ==
    Strip(StripSet(Replace(Replace(result, <<"*"," ">>, <<" ">>), <<" ","*">>, <<" ">>), {"*"}))

\* lines 433-446: cut before a known chain word at word index > 2 of more than 4 words
CutBeforeChain(result, words, hits) ==
    IF Len(words) > 4 /\ hits # {} THEN Join(SubSeq(words, 1, SetMin(hits)), <<" ">>) ELSE result
ChainWords(words) == {i \in 3..(Len(words) - 1) : words[i + 1] \in KnownChains}
TruncateAt(result, words) == CutBeforeChain(result, words, ChainWords(words))
TruncateConcatenated(result) == TruncateAt(result, Split(result))

\* lines 456-459
RECURSIVE RemovePrefixes(_, _, _)
RemovePrefixes(result, prefixes, k) ==
    IF k > Len(prefixes) THEN result
    ELSE IF StartsWith(Lower(result), Lower(prefixes[k]))
         THEN RemovePrefixes(Strip(LStripSet(Strip(Drop(result, Len(prefixes[k]))), {":"})), prefixes, k + 1)
    ELSE RemovePrefixes(result, prefixes, k + 1)

\* lines 462-475: the sanitized text, NoneStr when it is discarded
AcceptResponse(result, original) ==
    IF \E kw \in EchoKeywords : Contains(Lower(result), kw) THEN NoneStr
    ELSE IF result # <<>> /\ 3 <= Len(result) /\ Len(result) <= 60 /\ AnyAlpha(result)
            /\ Lower(result) # Lower(original)
         THEN result
    ELSE NoneStr

\* _clean_llm_response (402-475): the sanitized candidate, NoneStr when discarded
CleanLlmResponse(result, original) ==
    IF result = <<>> THEN NoneStr
    ELSE AcceptResponse(
             RemovePrefixes(
                 TruncateConcatenated(
                     StripAsterisks(
                         StripArtifactPrefixes(
                             CutAtMarker(FirstLine(Strip(RemoveCh(RemoveCh(result, "\""), "'"))),
                                         ResponseMarkers, 1),
                             ArtifactPrefixes, 1))),
                 PrefixesToRemove, 1),
             original)

ConfidenceBadWords == {<<"P","U","R","C","H","A","S","E">>, <<"R","E","C","U","R">>, <<"P","O","S">>, <<"A","C","H">>, <<"W","E","B">>, <<"P","M","T","S">>}
Clamp(lo, x, hi) == IF x < lo THEN lo ELSE IF x > hi THEN hi ELSE x
\* _calculate_confidence (477-519); prompt_idx counts from 0
CalculateConfidence(result, original, prompt_idx) ==
    Clamp(0,
          50
          + (IF 3 <= Len(result) /\ Len(result) <= 30 THEN 20 ELSE IF Len(result) > 30 THEN -10 ELSE 0)
          + (IF result # <<>> /\ result[1] \in UpperSet THEN 10 ELSE 0)
          + (IF Lower(result) # Lower(original) THEN 15 ELSE 0)
          + (IF Contains(result, <<" ">>) THEN 10 ELSE 0)
          + (IF ~\E w \in ConfidenceBadWords : Contains(Upper(result), w) THEN 15 ELSE -20)
          + (IF prompt_idx = 2 THEN 10 ELSE 0),
          100)

LocationWords ==
    {<<"f","a","r","g","o">>, <<"w","e","s","t">>, <<"e","a","s","t">>, <<"n","o","r","t","h">>, <<"s","o","u","t","h">>, <<"s","a","i","n","t">>, <<"s","t"," ">>,
     <<"a","l","b","a","n","y">>, <<"m","o","o","r","h","e","a","d">>, <<"a","l","e","x","a","n","d","r","i","a">>, <<"s","a","v","a","g","e">>, <<"o","a","k","l","a","n","d">>,
     <<" ","n","d">>, <<" ","m","n">>, <<" ","c","a">>, <<" ","w","a">>, <<" ","v","a">>, <<" ","m","e">>, <<" ","s","d">>, <<" ","n","y">>}
VoteArtifacts == {<<"P","U","R","C","H","A","S","E">>, <<"R","E","C","U","R">>, <<"P","O","S">>, <<"W","L","*">>}
WordCountScore(n) == IF 2 <= n /\ n <= 3 THEN 10 ELSE IF n > 5 THEN -10 ELSE 0
\* the combined score of one candidate (537-570)
CombinedScore(result, confidence) ==
    confidence
    + (IF \E loc \in LocationWords : Contains(Lower(result), loc) THEN -50 ELSE 0)
    + (IF \E w \in VoteArtifacts : Contains(Upper(result), w) THEN -30 ELSE 0)
    + (IF 5 <= Len(result) /\ Len(result) <= 25 THEN 15 ELSE IF Len(result) > 35 THEN -10 ELSE 0)
    + WordCountScore(Len(Split(result)))

\* the last candidate with the highest score
LastBestScored(results, scores) ==
    results[SetMax({k \in DOMAIN scores : \A j \in DOMAIN scores : scores[k] >= scores[j]})]
\* max(scores, key=...): the first candidate with the highest score (573-574)
BestScored(results, scores) ==
    results[SetMin({k \in DOMAIN scores : \A j \in DOMAIN scores : scores[k] >= scores[j]})]
\* _cross_validate_merchant_names_weighted (521-574)
CrossValidateWeighted(results, confidences, original) ==
    IF results = <<>> THEN original
    ELSE IF Cardinality({Lower(results[k]) : k \in DOMAIN results}) = 1 THEN results[1]
    ELSE BestScored(results,
                    SubSeq([k \in DOMAIN results |->
                               CombinedScore(results[k], IF k <= Len(confidences) THEN confidences[k] ELSE 0)],
                           1, Len(results)))

\* the candidate a call would contribute if the status of the response and the
\* exception handler of lines 376-400 were not there: the body is used as it is
CandidateOfBody(outcome, merchant) == CleanLlmResponse(Strip(outcome.text), merchant)

\* the candidate one call contributes (378-386), NoneStr if none
Candidate(outcome, merchant) ==
    IF outcome.kind = "ok" THEN CleanLlmResponse(Strip(outcome.text), merchant) ELSE NoneStr

\* lines 389-400: kept holds the candidates that were appended, with their prompt index
Vote(kept, merchant) ==
    IF Len(kept) >= 2
    THEN CrossValidateWeighted([j \in DOMAIN kept |-> kept[j].name],
                               [j \in DOMAIN kept |-> CalculateConfidence(kept[j].name, merchant, kept[j].idx)],
                               merchant)
    ELSE IF Len(kept) = 1 THEN kept[1].name
    ELSE merchant

\* llm_clean_merchant_name (236-400) with the model available: script holds the
\* outcomes of the three calls.  [name, requests]
LlmCleanMerchantName(merchant, script) ==
    [name |-> Vote(SelectSeq([k \in 1..3 |-> [name |-> Candidate(script[k], merchant), idx |-> k - 1]],
                             LAMBDA c : c.name # NoneStr /\ c.name # <<>>),
                   merchant),
     requests |-> 3]

\* llm_clean_merchant_name, line 249 included
LlmClean(merchant, llm_available, script) ==
    IF ~llm_available THEN [name |-> merchant, requests |-> 0] ELSE LlmCleanMerchantName(merchant, script)
(***************************************************************************)
(* Merchant Name Normalizer: post-processing, the three phases and the     *)
(* cache in front of them.                                                 *)
(***************************************************************************)
LlmArtifacts ==
    <<Step(Cat(<<Lit(<<"(","N","o"," ","l","o","c","a","t","i","o","n"," ","i","n","f","o","r","m","a","t","i","o","n">>), RepLazyInf(Dot, 0), Lit(<<")">>)>>), Const(<<>>), TRUE),
      Step(Cat(<<Lit(<<"(","N","o"," ","l","o","c","a","t","i","o","n">>), RepLazyInf(Dot, 0), Lit(<<")">>)>>), Const(<<>>), TRUE),
      Step(Cat(<<Lit(<<"N","o"," ","l","o","c","a","t","i","o","n"," ","i","n","f","o","r","m","a","t","i","o","n"," ","p","r","o","v","i","d","e","d">>), RepInf(Dot, 0)>>), Const(<<>>), TRUE),
      Step(Cat(<<Lit(<<"Y","e","s",","," ","t","h","e"," ","t","r","a","n","s","a","c","t","i","o","n"," ","n","a","m","e"," ","i","s">>), Rep(Lit(<<":">>), 0, 1)>>), Const(<<>>), TRUE),
      Step(Cat(<<Lit(<<"T","h","e"," ","t","r","a","n","s","a","c","t","i","o","n"," ","n","a","m","e"," ","i","s">>), Rep(Lit(<<":">>), 0, 1)>>), Const(<<>>), TRUE),
      Step(Lit(<<"A"," ","f","u","n"," ","o","n","e","!">>), Const(<<>>), TRUE),
      Step(Lit(<<"A"," ","f","u","n"," ","t","r","a","n","s","a","c","t","i","o","n","!">>), Const(<<>>), TRUE),
      Step(Lit(<<"t","h","e"," ","t","r","a","n","s","a","c","t","i","o","n"," ","d","e","t","a","i","l","s",":">>), Const(<<>>), TRUE)>>
EdgePunctuation == Alt(<<Cat(<<Bol, RepInf(Cls(SpaceSet \cup {","}), 1)>>), Cat(<<RepInf(Cls(SpaceSet \cup {","}), 1), Eol>>)>>)
ExtraWords == <<<<"P","u","r","c","h","a","s","e">>, <<"S","u","p","e","r","c","e","n","t","e","r">>, <<"S","t","o","r","e">>, <<"L","o","c","a","t","i","o","n">>, <<"B","r","a","n","c","h">>, <<"R","e","t","a","i","l","e","r">>, <<"L","L","C">>, <<"I","n","c">>, <<"C","o","r","p","o","r","a","t","i","o","n">>, <<"C","o","m","p","a","n","y">>>>

\* lines 1233-1239: all caps becomes title case, a short all-letter acronym stays
TitleAllCaps(name) ==
    IF StrIsUpper(name) /\ Len(name) > 3 /\ ~(Len(name) <= 4 /\ StrIsAlpha(name)) THEN Title(name) ELSE name
\* lines 1242-1243
DropThe(name) == IF StartsWith(Upper(name), <<"T","H","E"," ">>) THEN Drop(name, 4) ELSE name
\* lines 1247-1249
SpaceBeforeCaps(name) ==
    IF ~Contains(name, <<" ">>) /\ (\E k \in 2..Len(name) : name[k] \in UpperSet)
    THEN Sub(LowerThenUpper, Groups12(<<" ">>), name, FALSE) ELSE name
\* lines 1257-1260
RECURSIVE RemoveExtraWords(_, _, _)
RemoveExtraWords(name, words, k) ==
    IF k > Len(words) THEN name
    ELSE IF EndsWith(name, <<" ">> \o words[k])
         THEN RemoveExtraWords(Strip(Take(name, Len(name) - Len(words[k]) - 1)), words, k + 1)
    ELSE RemoveExtraWords(name, words, k + 1)

\* _normalize_llm_output (1198-1262)
NormalizeLlmOutput(name) ==
    IF name = <<>> THEN name
    ELSE Strip(RemoveExtraWords(
                   SpaceBeforeCaps(DropThe(TitleAllCaps(
                       Sub(EdgePunctuation, Const(<<>>), Strip(ApplySteps(LlmArtifacts, 1, name)), FALSE)))),
                   ExtraWords, 1))

\* PHASE 2 of _clean_merchant_name (1454-1457): the answer c of the model call is
\* returned when it is usable, PHASE 3 (1462-1483) runs otherwise
AfterModel(c, name, original) ==
    IF c.name # <<>> /\ c.name # name /\ Len(c.name) >= 3 THEN c
    ELSE [name |-> FallbackTitleCase(name, original), requests |-> c.requests]
\* the model call of a phase that only runs with the model available and a name
\* longer than 3 characters (1454-1455, 1291-1292)
GuardedLlmClean(name, llm_available, script) ==
    IF llm_available /\ Len(name) > 3 THEN LlmCleanMerchantName(name, script)
    ELSE [name |-> name, requests |-> 0]
\* lines 1452-1483 after PHASE 1 left p
AfterPatterns(p, original, llm_available, script) ==
    IF p.ret THEN [name |-> p.name, requests |-> 0]
    ELSE AfterModel(GuardedLlmClean(p.name, llm_available, script), p.name, original)

\* _clean_merchant_name (1307-1483): [name, requests]; script holds the outcomes
\* of the three model calls this invocation makes if it reaches Phase 2
CleanMerchantName(name, llm_available, script) ==
    IF Len(name) < 3 THEN [name |-> name, requests |-> 0]
    ELSE AfterPatterns(PatternPhase(name), name, llm_available, script)

CacheKey(name) == Strip(Upper(name))
\* a cache that holds nothing but the entry written
CacheReplace(cache, key, value) == (key :> value)
\* self.merchant_cache[cache_key] = value (1298, 1303)
CachePut(cache, key, value) == [k \in (DOMAIN cache) \cup {key} |-> IF k = key THEN value ELSE cache[k]]

\* lines 1292-1305: p1 is what Phase 1 returned, c what the refinement call returned
\* (p1's name when no call was made), norm the post-processed c
StoreAndReturn(cache, name, p1, c, norm) ==
    IF c.name # <<>> /\ c.name # p1.name /\ Len(c.name) >= 3 /\ Len(norm) >= 3
    THEN [name |-> norm, cache |-> CachePut(cache, CacheKey(name), norm),
          requests |-> p1.requests + c.requests, hit |-> FALSE]
    ELSE [name |-> p1.name,
          cache |-> IF p1.name # name THEN CachePut(cache, CacheKey(name), p1.name) ELSE cache,
          requests |-> p1.requests + c.requests, hit |-> FALSE]
\* line 1294
PostProcess(cache, name, p1, c) == StoreAndReturn(cache, name, p1, c, NormalizeLlmOutput(c.name))
\* lines 1290-1305 after Phase 1 returned p1
ContextRefinement(cache, llm_available, name, p1, script2) ==
    PostProcess(cache, name, p1, GuardedLlmClean(p1.name, llm_available, script2))

\* the three phases without the lookup of lines 1282-1284: what
\* _clean_merchant_name_with_context would do if it never consulted the cache
CleanWithoutLookup(cache, llm_available, name, script1, script2) ==
    IF Len(name) < 3 THEN [name |-> name, cache |-> cache, requests |-> 0, hit |-> FALSE]
    ELSE ContextRefinement(cache, llm_available, name, CleanMerchantName(name, llm_available, script1), script2)

\* _clean_merchant_name_with_context (1264-1305) on the cache `cache`:
\* the value returned, the cache afterwards, the number of model requests issued,
\* and whether the cache answered.  script1 feeds Phase 1's call of
\* _clean_merchant_name, script2 the context-aware refinement.
CleanMerchantNameWithContext(cache, llm_available, name, script1, script2) ==
    IF Len(name) < 3 THEN [name |-> name, cache |-> cache, requests |-> 0, hit |-> FALSE]
    ELSE IF CacheKey(name) \in DOMAIN cache
         THEN [name |-> cache[CacheKey(name)], cache |-> cache, requests |-> 0, hit |-> TRUE]
    ELSE ContextRefinement(cache, llm_available, name, CleanMerchantName(name, llm_available, script1), script2)

(***************************************************************************)
(* The construction of the cache: merchant_cache.json, then the Place      *)
(* columns of the output files under statements/.                          *)
(***************************************************************************)
\* merchant_cache.json on disk: no such file, a file json.load cannot read, or
\* the entries of a dict
Missing == [kind |-> "missing"]
Unreadable == [kind |-> "unreadable"]
Entries(d) == [kind |-> "entries", entries |-> d]
\* a constructor that leaves the cache as it is, whatever the file holds
LoadNothing(cache, file) == cache
\* _load_merchant_cache (120-130): file is what merchant_cache.json is
LoadMerchantCache(cache, file) ==
    IF file.kind = "missing" THEN cache
    ELSE IF file.kind = "unreadable" THEN <<>>
    ELSE file.entries

\* line 183: merchant_counts[place] = merchant_counts.get(place, 0) + 1; order
\* is the order in which the dict received its keys
Counted(counts, place) ==
    IF place \in DOMAIN counts.count
    THEN [counts EXCEPT !.count[place] = @ + 1]
    ELSE [order |-> Append(counts.order, place), count |-> CachePut(counts.count, place, 1)]
\* lines 180-183 over the Place column of one file, from row k
RECURSIVE CountPlaces(_, _, _)
CountPlaces(counts, column, k) ==
    IF k > Len(column) THEN counts
    ELSE CountPlaces(IF Len(column[k]) >= 3 THEN Counted(counts, column[k]) ELSE counts, column, k + 1)
\* lines 174-186 for one file: a file that cannot be read or has no Place
\* column adds nothing
ScanFile(counts, file) ==
    IF file.kind = "places" THEN CountPlaces(counts, file.column, 1) ELSE counts
\* lines 164-186: the files in the order the scan visits them
RECURSIVE ScanFiles(_, _, _)
ScanFiles(counts, files, k) ==
    IF k > Len(files) THEN counts
    ELSE ScanFiles(ScanFile(counts, files[k]), files, k + 1)
\* an entry is written only under a key the cache does not have
CorrectedIfAbsent(cache, place) ==
    IF CacheKey(place) \notin DOMAIN cache THEN CachePut(cache, CacheKey(place), place) ELSE cache
\* lines 191-194
Corrected(cache, place) ==
    IF CacheKey(place) \notin DOMAIN cache \/ cache[CacheKey(place)] # place
    THEN CachePut(cache, CacheKey(place), place)
    ELSE cache
\* lines 190-198 from the k-th key of merchant_counts
RECURSIVE StoreCorrections(_, _, _)
StoreCorrections(cache, order, k) ==
    IF k > Len(order) THEN cache
    ELSE StoreCorrections(Corrected(cache, order[k]), order, k + 1)
NoCounts == [order |-> <<>>, count |-> <<>>]
\* _load_user_corrections_from_csvs (141-209): the cache and merchant_frequency
\* afterwards; without a statements directory nothing is read (151-157)
LoadUserCorrectionsFromCsvs(cache, statements) ==
    IF statements.kind = "missing" THEN [cache |-> cache, frequency |-> <<>>]
    ELSE [cache |-> StoreCorrections(cache, ScanFiles(NoCounts, statements.files, 1).order, 1),
          frequency |-> ScanFiles(NoCounts, statements.files, 1).count]
(***************************************************************************)
(* Transaction Block Parser.  Amounts are integers of cents: the text      *)
(* "45.23" is the amount 4523.                                             *)
(***************************************************************************)
\* the correction table without its entries for 14 and 13
TableWithoutTeens == (42 :> 12) @@ (41 :> 11) @@ (40 :> 10)

\* the correction table of _fix_ocr_date_errors (916-922)
Corrections == (42 :> 12) @@ (41 :> 11) @@ (40 :> 10) @@ (14 :> 11) @@ (13 :> 11)

\* lines 913-939: the month is an integer, rest holds the parts after it
CorrectMonth(date_str, month, rest) ==
    IF month > 12 /\ month \in DOMAIN Corrections
    THEN Join(<<ZFill(IntStr(Corrections[month]), IF month >= 10 THEN 2 ELSE 1)>> \o rest, <<"/">>)
    ELSE IF month > 12 /\ month \div 10 > 1 /\ month % 10 <= 2
         THEN Join(<<IntStr(10 + (month % 10))>> \o rest, <<"/">>)
    ELSE date_str
\* lines 906-943.  int() of a part that is not a run of digits raises ValueError,
\* which the function catches.
FixDateParts(date_str, parts) ==
    IF ~IsDigits(parts[1]) THEN date_str ELSE CorrectMonth(date_str, ParseInt(parts[1]), Tail(parts))
\* _fix_ocr_date_errors (892-943)
FixOcrDateErrors(date_str) ==
    IF date_str = <<>> \/ ~Contains(date_str, <<"/">>) THEN date_str
    ELSE FixDateParts(date_str, SplitOn(date_str, "/"))

date_pattern_long == Cat(<<Bol, Cat(<<Rep(Cls(DigitSet), 1, 2), Lit(<<"/">>), Rep(Cls(DigitSet), 1, 2), Lit(<<"/">>), Rep(Cls(DigitSet), 4, 4)>>)>>)
date_pattern_short == Cat(<<Bol, Cat(<<Rep(Cls(DigitSet), 1, 2), Lit(<<"/">>), Rep(Cls(DigitSet), 1, 2), Lit(<<"/">>), Rep(Cls(DigitSet), 2, 2)>>)>>)
date_pattern_dash == Cat(<<Bol, Cat(<<Rep(Cls(DigitSet), 1, 2), Lit(<<"-">>), Rep(Cls(DigitSet), 1, 2)>>), Cls(SpaceSet)>>)
ReferencePrefix == Cat(<<Bol, RepInf(Cls(DigitSet), 17), RepInf(Cls(SpaceSet), 1)>>)
AmountPattern == Cat(<<Rep(Lit(<<"$">>), 0, 1), Cat(<<RepInf(Cls(DigitSet \cup {","}), 1), Lit(<<".">>), Rep(Cls(DigitSet), 2, 2)>>)>>)
LongDigits == RepInf(Cls(DigitSet), 17)
TimeOnly == Cat(<<Bol, Rep(Cls(DigitSet), 1, 2), Lit(<<":">>), Rep(Cls(DigitSet), 2, 2), Eol>>)
PartialDateSuffix == Cat(<<RepInf(Cls(SpaceSet), 1), Rep(Cls(DigitSet), 1, 2), Lit(<<"/">>), Rep(Cls(DigitSet), 1, 2), Lit(<<"/">>), Rep(Cls(DigitSet), 2, 4), Eol>>)

\* re.match of the long, the short and the dash date pattern at the start of a
\* line: the end of each match, 0 for no match
DateEnds(line) ==
    [long |-> MatchEnd(date_pattern_long, line, FALSE),
     short |-> MatchEnd(date_pattern_short, line, FALSE),
     dash |-> MatchEnd(date_pattern_dash, line, FALSE)]
\* the three-pattern test of lines 1054-1056 and 1067-1069
AnyDate(e) == e.long > 0 \/ e.short > 0 \/ e.dash > 0
HasDate(line) == AnyDate(DateEnds(line))

\* float(match.group(1).replace(',', '')) in cents
AmountOf(m) ==
    LET g == IF m[1] = "$" THEN Tail(m) ELSE m
        parts == SplitOn(RemoveCh(g, ","), ".")
    IN  100 * ParseInt(parts[1]) + ParseInt(parts[2])

\* lines 1023-1029 and 1107-1113
AmountsAt(rest, ms) == [k \in DOMAIN ms |-> AmountOf(Slice(rest, ms[k][1], ms[k][2] - 1))]
ExtractAmounts(rest) == AmountsAt(rest, FindIter(AmountPattern, rest, FALSE))

\* lines 980-997: trans_date before the OCR correction, <<>> for None
TwoDigitYear(date_parts) == date_parts[1] \o <<"/">> \o date_parts[2] \o <<"/","2","0">> \o date_parts[3]
TransDate(current_line, statement_year, e) ==
    IF e.long > 0 THEN Take(current_line, e.long - 1)
    ELSE IF e.short > 0 THEN TwoDigitYear(SplitOn(Take(current_line, e.short - 1), "/"))
    ELSE IF e.dash > 0
         THEN Replace(Take(current_line, e.dash - 2), <<"-">>, <<"/">>) \o <<"/">> \o IntStr(statement_year)
    ELSE <<>>
\* date_match.end(), 0 when no pattern matched
DateMatchEnd(e) == IF e.long > 0 THEN e.long - 1 ELSE IF e.short > 0 THEN e.short - 1 ELSE IF e.dash > 0 THEN e.dash - 1 ELSE 0
\* lines 980-1002: the date at the start of the line as MM/DD/YYYY after OCR
\* correction, and the length of the match; len = 0 when the line has no date
DateFrom(current_line, statement_year, e) ==
    [len |-> DateMatchEnd(e), date |-> FixOcrDateErrors(TransDate(current_line, statement_year, e))]
LeadingDate(current_line, statement_year) == DateFrom(current_line, statement_year, DateEnds(current_line))

\* rest[match.end():].strip() when the match ending at e exists
SkipMatch(rest, e) == IF e > 0 THEN Strip(Drop(rest, e - 1)) ELSE rest
\* lines 1009-1014: short or long or dash
SecondDateEnd(e) == IF e.short > 0 THEN e.short ELSE IF e.long > 0 THEN e.long ELSE e.dash
\* lines 1009-1020: the rest of a dated line after a second date and a reference number
SkipReference(rest) == SkipMatch(rest, MatchEnd(ReferencePrefix, rest, FALSE))
SkipSecondDateAndReference(rest) == SkipReference(SkipMatch(rest, SecondDateEnd(DateEnds(rest))))

\* the result of parse_transaction_block before _build_transaction is called:
\* build = FALSE stands for "return None, consumed"
NoBlock(consumed) == [build |-> FALSE, date |-> <<>>, description |-> <<>>, amounts |-> <<>>, consumed |-> consumed]

\* lines 1031-1046: the line without its amounts and long digit strings
OwnDescription(rest) ==
    Squeeze(Sub(LongDigits, Const(<<>>), Sub(AmountPattern, Const(<<>>), rest, FALSE), FALSE))
\* lines 1048-1061: the previous line stands in for a missing description
UsablePrevious(prev_line) ==
    prev_line # <<>> /\ ~HasDate(prev_line) /\ ~Matches(TimeOnly, prev_line, FALSE)
    /\ AnyAlpha(prev_line) /\ Len(prev_line) > 5
BorrowPrevious(own, lines, start_idx) ==
    IF (own = <<>> \/ Len(own) < 3 \/ ~AnyAlpha(own)) /\ start_idx > 1
       /\ UsablePrevious(Strip(lines[start_idx - 1]))
    THEN Strip(lines[start_idx - 1]) ELSE own
\* lines 1063-1076: the next line continues the description
IsContinuation(next_line) ==
    next_line # <<>> /\ ~HasDate(next_line) /\ AnyAlpha(next_line) /\ ~Contains(next_line, <<"$">>)
Continued(lines, start_idx) == start_idx + 1 <= Len(lines) /\ IsContinuation(Strip(lines[start_idx + 1]))
\* lines 1063-1080
DatedResult(lines, start_idx, date, description, amounts, continued) ==
    IF (description = <<>> /\ ~continued) \/ amounts = <<>> THEN NoBlock(IF continued THEN 2 ELSE 1)
    ELSE [build |-> TRUE, date |-> date,
          description |-> IF continued THEN description \o <<" ">> \o Strip(lines[start_idx + 1]) ELSE description,
          amounts |-> amounts, consumed |-> IF continued THEN 2 ELSE 1]
\* lines 1022-1080 for the text rest that follows the dates and the reference
DatedRest(lines, start_idx, date, rest) ==
    DatedResult(lines, start_idx, date, BorrowPrevious(OwnDescription(rest), lines, start_idx),
                ExtractAmounts(rest), Continued(lines, start_idx))
\* lines 1004-1080: the line starts with a date
DatedBlock(lines, start_idx, current_line, lead) ==
    DatedRest(lines, start_idx, lead.date, SkipSecondDateAndReference(Strip(Drop(current_line, lead.len))))

\* lines 1118-1126: the line after the amounts adds to the description
IsExtraInfo(third_line) ==
    third_line # <<>> /\ ~Matches(date_pattern_long, third_line, FALSE)
    /\ AnyAlpha(third_line) /\ ~Contains(third_line, <<"$">>)
HasExtraInfo(lines, start_idx) == start_idx + 2 <= Len(lines) /\ IsExtraInfo(Strip(lines[start_idx + 2]))
\* a result that counts one line more than lines 1116-1127 do
CountsOneMore(lines, start_idx, date, description, amounts, extra) ==
    IF amounts = <<>> THEN NoBlock(3)
    ELSE [build |-> TRUE, date |-> date, description |-> description, amounts |-> amounts,
          consumed |-> IF extra THEN 4 ELSE 3]
\* lines 1115-1129
DescriptionFirstResult(lines, start_idx, date, description, amounts, extra) ==
    IF amounts = <<>> THEN NoBlock(2)
    ELSE [build |-> TRUE, date |-> date,
          description |-> IF extra THEN description \o <<" ">> \o Strip(lines[start_idx + 2]) ELSE description,
          amounts |-> amounts, consumed |-> IF extra THEN 3 ELSE 2]
\* lines 1099-1129: el is the end of the date at the start of next_line
DatedNextLine(lines, start_idx, current_line, next_line, el) ==
    IF el = 0 THEN NoBlock(1)
    ELSE DescriptionFirstResult(lines, start_idx, Take(next_line, el - 1),
                                Sub(PartialDateSuffix, Const(<<>>), current_line, FALSE),
                                ExtractAmounts(Strip(Drop(next_line, el - 1))),
                                HasExtraInfo(lines, start_idx))
NextLineDate(lines, start_idx, current_line, next_line) ==
    DatedNextLine(lines, start_idx, current_line, next_line, MatchEnd(date_pattern_long, next_line, FALSE))
\* lines 1082-1129: a description line, then the date and the amounts on the next line
DescriptionFirstBlock(lines, start_idx, current_line) ==
    IF ~AnyAlpha(current_line) THEN NoBlock(1)
    ELSE IF start_idx + 1 > Len(lines) THEN NoBlock(1)
    ELSE NextLineDate(lines, start_idx, current_line, Strip(lines[start_idx + 1]))

\* lines 976-1129 for the stripped line current_line with its leading date lead
BlockAt(lines, start_idx, current_line, lead) ==
    IF lead.len > 0 THEN DatedBlock(lines, start_idx, current_line, lead)
    ELSE DescriptionFirstBlock(lines, start_idx, current_line)
LineBlock(lines, start_idx, statement_year, current_line) ==
    IF current_line = <<>> THEN NoBlock(1)
    ELSE BlockAt(lines, start_idx, current_line, LeadingDate(current_line, statement_year))
\* parse_transaction_block (945-1129) up to the call of _build_transaction;
\* start_idx counts from 1
ParseTransactionBlock(lines, start_idx, statement_year) ==
    IF start_idx > Len(lines) THEN NoBlock(0)
    ELSE LineBlock(lines, start_idx, statement_year, Strip(lines[start_idx]))
GarbagePatterns ==
    {<<"D","A","T","E"," ","A","M","O","U","N","T">>, <<"D","E","S","C","R","I","P","T","I","O","N"," ","D","E","B","I","T","S"," ","C","R","E","D","I","T","S">>, <<"P","O","S","T"," ","D","A","T","E">>, <<"T","R","A","N","S"," ","D","A","T","E">>, <<"R","E","F","E","R","E","N","C","E">>,
     <<"P","A","G","E">>, <<"A","C","C","O","U","N","T"," ","S","T","A","T","E","M","E","N","T","S">>, <<"S","T","A","T","E","M","E","N","T"," ","E","N","D","I","N","G">>, <<"C","U","S","T","O","M","E","R"," ","N","U","M","B","E","R">>, <<"C","H","E","C","K","I","N","G"," ","A","C","C","O","U","N","T">>,
     <<"S","A","V","I","N","G","S"," ","A","C","C","O","U","N","T">>, <<"D","A","I","L","Y"," ","B","A","L","A","N","C","E">>, <<"D","A","T","E"," ","A","M","O","U","N","T"," ","D","A","T","E"," ","A","M","O","U","N","T">>, <<"B","E","G","I","N","N","I","N","G"," ","B","A","L","A","N","C","E">>,
     <<"E","N","D","I","N","G"," ","B","A","L","A","N","C","E">>}

\* Python's None where an amount is expected (amounts parsed from text are >= 0)
NoneAmount == 0 - 1

\* amount fields whose Balance is the last amount of the line
BalanceLast(amounts) ==
    IF amounts = <<>> THEN <<>>
    ELSE IF Len(amounts) = 1 THEN ("Amount" :> amounts[1])
    ELSE IF Len(amounts) = 2 THEN ("Amount" :> amounts[1]) @@ ("Balance" :> amounts[2])
    ELSE ("Debits" :> (IF amounts[1] > 0 THEN amounts[1] ELSE NoneAmount))
         @@ ("Credits" :> (IF amounts[2] > 0 THEN amounts[2] ELSE NoneAmount))
         @@ ("Balance" :> amounts[Len(amounts)])

\* the amount fields of lines 1184-1194; no field for an empty list
AmountFields(amounts) ==
    IF amounts = <<>> THEN <<>>
    ELSE IF Len(amounts) = 1 THEN ("Amount" :> amounts[1])
    ELSE IF Len(amounts) = 2 THEN ("Amount" :> amounts[1]) @@ ("Balance" :> amounts[2])
    ELSE ("Debits" :> (IF amounts[1] > 0 THEN amounts[1] ELSE NoneAmount))
         @@ ("Credits" :> (IF amounts[2] > 0 THEN amounts[2] ELSE NoneAmount))
         @@ ("Balance" :> amounts[3])

\* dict.get(key, default)
Get(d, key, default) == IF key \in DOMAIN d THEN d[key] ELSE default

\* a service behaviour for one normalization: the outcomes of the three calls of
\* Phase 1 (s1) and of the three calls of the refinement (s2)
Service(s1, s2) == [s1 |-> s1, s2 |-> s2]

\* lines 1137-1167: the description is a page header, a footer or a fragment
IsGarbage(desc) ==
    (\E pattern \in GarbagePatterns : Contains(Upper(desc), pattern))
    \/ (Len(Split(desc)) = 1 /\ Len(desc) < 4)
    \/ Len(desc) < 3 \/ ~AnyAlpha(desc)
\* lines 1178-1196: c is what _clean_merchant_name_with_context returned
TransactionOf(date, desc, amounts, c) ==
    [ok |-> TRUE,
     trans |-> ("Transaction Date" :> date) @@ ("Place" :> c.name) @@ ("Place_Original" :> desc)
               @@ AmountFields(amounts),
     cache |-> c.cache, requests |-> c.requests]
\* lines 1137-1196 for the description after line 1133
BuildFrom(date, desc, amounts, cache, llm_available, svc) ==
    IF IsGarbage(desc) THEN [ok |-> FALSE, trans |-> <<>>, cache |-> cache, requests |-> 0]
    ELSE TransactionOf(date, desc, amounts,
                       CleanMerchantNameWithContext(cache, llm_available, desc, svc.s1, svc.s2))
\* _build_transaction (1131-1196):
\* ok = FALSE stands for the return value None
BuildTransaction(date, description, amounts, cache, llm_available, svc) ==
    BuildFrom(date, Squeeze(description), amounts, cache, llm_available, svc)

StartMarkers ==
    {<<"A","C","C","O","U","N","T"," ","A","C","T","I","V","I","T","Y">>, <<"T","R","A","N","S","A","C","T","I","O","N"," ","H","I","S","T","O","R","Y">>, <<"T","R","A","N","S","A","C","T","I","O","N","S">>, <<"P","O","S","T"," ","D","A","T","E">>, <<"T","R","A","N","S"," ","D","A","T","E">>,
     <<"P","O","S","T","I","N","G">>, <<"D","E","S","C","R","I","P","T","I","O","N"," ","O","F"," ","T","R","A","N","S","A","C","T","I","O","N">>}
EndMarkers ==
    {<<"T","O","T","A","L"," ","D","E","B","I","T","S">>, <<"T","O","T","A","L"," ","C","R","E","D","I","T","S">>, <<"I","N","T","E","R","E","S","T"," ","S","U","M","M","A","R","Y">>, <<"F","E","E","S"," ","S","U","M","M","A","R","Y">>, <<"P","A","G","E"," ","2">>, <<"P","A","G","E"," ","3">>,
     <<"P","A","G","E"," ","4">>, <<"S","T","A","T","E","M","E","N","T"," ","C","L","O","S","I","N","G">>, <<"I","M","P","O","R","T","A","N","T"," ","I","N","F","O","R","M","A","T","I","O","N">>, <<"O","V","E","R","D","R","A","F","T">>, <<"D","I","R","E","C","T"," ","D","E","P","O","S","I","T">>,
     <<"I","N","T","E","R","E","S","T"," ","R","A","T","E">>, <<"D","A","I","L","Y"," ","B","A","L","A","N","C","E","S">>, <<"D","A","I","L","Y"," ","B","A","L","A","N","C","E">>, <<"E","N","D","I","N","G"," ","B","A","L","A","N","C","E">>}
SummaryMarkers ==
    {<<"B","E","G","I","N","N","I","N","G"," ","B","A","L","A","N","C","E">>, <<"E","N","D","I","N","G"," ","B","A","L","A","N","C","E">>, <<"C","R","E","D","I","T","(","S",")"," ","T","H","I","S"," ","P","E","R","I","O","D">>, <<"D","E","B","I","T","(","S",")"," ","T","H","I","S"," ","P","E","R","I","O","D">>,
     <<"I","N","T","E","R","E","S","T"," ","P","A","I","D">>, <<"A","N","N","U","A","L"," ","P","E","R","C","E","N","T","A","G","E">>, <<"I","N","T","E","R","E","S","T"," ","D","A","Y","S">>, <<"I","N","T","E","R","E","S","T"," ","E","A","R","N","E","D"," ","F","R","O","M">>}
HeaderMarkers == {<<"P","O","S","T"," ","D","A","T","E"," ","D","E","S","C","R","I","P","T","I","O","N">>, <<"D","A","T","E"," ","D","E","S","C","R","I","P","T","I","O","N"," ","D","E","B","I","T","S">>, <<"T","R","A","N","S"," ","D","A","T","E">>, <<"R","E","F","E","R","E","N","C","E">>}
DateStart == Cat(<<Bol, Rep(Cls(DigitSet), 1, 2), Cls({"/","-"}), Rep(Cls(DigitSet), 1, 2)>>)

HasMarker(line, markers) == \E marker \in markers : Contains(Upper(Strip(line)), marker)

\* which branch of the loop body of parse_transactions (1497-1548) the line takes
LineBranch(line, in_transaction_section) ==
    IF HasMarker(line, StartMarkers) THEN "start"
    ELSE IF in_transaction_section /\ HasMarker(line, EndMarkers) THEN "end"
    ELSE IF HasMarker(line, SummaryMarkers) THEN "summary"
    ELSE IF HasMarker(line, HeaderMarkers) THEN "header"
    ELSE IF ~in_transaction_section /\ ~Matches(DateStart, Strip(line), FALSE) THEN "outside"
    ELSE "block"

\* the state of the loop of parse_transactions: the cursor i (from 1), the
\* section flag, the transactions emitted, the merchant cache and the number of
\* model requests issued so far
LoopState(i, in_transaction_section, transactions, cache, requests) ==
    [i |-> i, in_transaction_section |-> in_transaction_section, transactions |-> transactions,
     cache |-> cache, requests |-> requests]

\* line 1080 / 1129: the block calls _build_transaction or returns None
BuildBlock(blk, cache, llm_available, svc) ==
    IF blk.build THEN BuildTransaction(blk.date, blk.description, blk.amounts, cache, llm_available, svc)
    ELSE [ok |-> FALSE, trans |-> <<>>, cache |-> cache, requests |-> 0]
\* lines 1545-1548: b is the transaction built, consumed the lines the block took
Emit(st, consumed, b) ==
    LoopState(st.i + (IF consumed > 0 THEN consumed ELSE 1),
              st.in_transaction_section,
              IF b.ok /\ b.trans["Place"] # <<>> THEN Append(st.transactions, b.trans) ELSE st.transactions,
              b.cache, st.requests + b.requests)
AfterBlock(st, blk, llm_available, svc) == Emit(st, blk.consumed, BuildBlock(blk, st.cache, llm_available, svc))
\* lines 1544-1548: parse the block at the cursor
BlockIteration(lines, st, statement_year, llm_available, svc) ==
    AfterBlock(st, ParseTransactionBlock(lines, st.i, statement_year), llm_available, svc)

\* lines 1502-1541: the line is skipped, a marker sets or clears the section flag
SkipLine(st, branch) ==
    LoopState(st.i + 1,
              IF branch = "start" THEN TRUE ELSE IF branch = "end" THEN FALSE ELSE st.in_transaction_section,
              st.transactions, st.cache, st.requests)
\* one iteration of the while loop of parse_transactions (1497-1548)
IterationOn(lines, st, statement_year, llm_available, svc, branch) ==
    IF branch = "block" THEN BlockIteration(lines, st, statement_year, llm_available, svc)
    ELSE SkipLine(st, branch)
LoopIteration(lines, st, statement_year, llm_available, svc) ==
    IterationOn(lines, st, statement_year, llm_available, svc,
                LineBranch(lines[st.i], st.in_transaction_section))

\* parse_transactions (1485-1550) on the lines of the text, run to the end with
\* one service behaviour for every normalization
RECURSIVE RunLoop(_, _, _, _, _)
RunLoop(lines, st, statement_year, llm_available, svc) ==
    IF st.i > Len(lines) THEN st
    ELSE RunLoop(lines, LoopIteration(lines, st, statement_year, llm_available, svc), statement_year, llm_available, svc)
ParseTransactions(lines, statement_year, cache, llm_available, svc) ==
    RunLoop(lines, LoopState(1, FALSE, <<>>, cache, 0), statement_year, llm_available, svc)
(***************************************************************************)
(* Quality Validator and Dual-Source Reconciler.                           *)
(***************************************************************************)
WellFormedDate == Cat(<<Bol, Rep(Cls(DigitSet), 1, 2), Lit(<<"/">>), Rep(Cls(DigitSet), 1, 2), Lit(<<"/">>), Rep(Cls(DigitSet), 4, 4), Eol>>)

\* t[k] is present, not None, not zero and positive (lines 759-760, 1747-1749)
Positive(t, k) == k \in DOMAIN t /\ t[k] # NoneAmount /\ t[k] > 0

HasValidDate(t) == "Transaction Date" \in DOMAIN t /\ Matches(WellFormedDate, t["Transaction Date"], FALSE)
HasValidAmount(t) == \E k \in {"Amount", "Credits", "Debits"} : Positive(t, k)
HasValidDescription(t) == "Place" \in DOMAIN t /\ Len(t["Place"]) >= 3 /\ AnyAlpha(t["Place"])
Count(transactions, P(_)) == Cardinality({k \in DOMAIN transactions : P(transactions[k])})

\* a score that takes 20 points for every failed check
FlatScore(bad_dates, bad_amounts, bad_descriptions, few, duplicates) ==
    100 - 20 * Cardinality({k \in 1..5 : <<bad_dates, bad_amounts, bad_descriptions, few, duplicates>>[k]})

\* lines 746-782: the score after the five checks, and the issues by their kind
Score(bad_dates, bad_amounts, bad_descriptions, few, duplicates) ==
    100 - (IF bad_dates THEN 20 ELSE 0) - (IF bad_amounts THEN 30 ELSE 0)
        - (IF bad_descriptions THEN 30 ELSE 0) - (IF few THEN 20 ELSE 0)
        - (IF duplicates THEN 10 ELSE 0)
Issues(bad_dates, bad_amounts, bad_descriptions, few, duplicates) ==
    (IF bad_dates THEN <<"valid dates">> ELSE <<>>)
    \o (IF bad_amounts THEN <<"valid amounts">> ELSE <<>>)
    \o (IF bad_descriptions THEN <<"valid descriptions">> ELSE <<>>)
    \o (IF few THEN <<"Very few transactions">> ELSE <<>>)
    \o (IF duplicates THEN <<"Many duplicates">> ELSE <<>>)
\* lines 784-790
Report(score, issues, n, method) ==
    ("valid" :> (score >= 50)) @@ ("score" :> (IF score < 0 THEN 0 ELSE score))
    @@ ("transaction_count" :> n) @@ ("issues" :> issues) @@ ("method" :> method)
Checked(n, bad_dates, bad_amounts, bad_descriptions, few, duplicates, method) ==
    Report(Score(bad_dates, bad_amounts, bad_descriptions, few, duplicates),
           Issues(bad_dates, bad_amounts, bad_descriptions, few, duplicates), n, method)

\* validate_transactions (725-794).  The ratio tests compare count / n with 0.9,
\* 0.8 and 0.5, which is the integer inequality written here.  An issue is
\* recorded by its kind.
ValidateTransactions(transactions, method) ==
    IF transactions = <<>>
    THEN ("valid" :> FALSE) @@ ("score" :> 0) @@ ("transaction_count" :> 0) @@ ("issues" :> <<"No transactions found">>)
    ELSE Checked(Len(transactions),
                 10 * Count(transactions, HasValidDate) < 9 * Len(transactions),
                 10 * Count(transactions, HasValidAmount) < 9 * Len(transactions),
                 10 * Count(transactions, HasValidDescription) < 8 * Len(transactions),
                 Len(transactions) < 3,
                 2 * Cardinality({Get(transactions[k], "Place", <<>>) : k \in DOMAIN transactions}) < Len(transactions),
                 method)

DescriptionArtifacts ==
    {<<"P","U","R","C","H","A","S","E">>, <<"R","E","C","U","R">>, <<"W","L","*">>, <<"W","L"," ">>, <<"S","Q","*">>, <<"T","S","T","*">>, <<"P","a","y","m","e","n","t",".">>, <<"G","i","n","o"," ">>,
     <<"J","a","i","s","o","n"," ">>, <<"X","X">>, <<"P","O","S"," ">>, <<"A","C","H"," ">>}

\* score_description (1562-1597)
ScoreDescription(place) ==
    100 - 30 * Cardinality({a \in DescriptionArtifacts : Contains(place, a) \/ Contains(Upper(place), a)})
        - (IF Len(place) > 40 THEN 20 ELSE IF Len(place) > 25 THEN 10 ELSE 0)
        - (LET word_count == Len(Split(place)) IN IF word_count > 5 THEN 15 ELSE IF word_count > 4 THEN 5 ELSE 0)
        + (IF place # <<>> /\ place[1] \in UpperSet THEN 5 ELSE 0)
        - (IF place # <<>> /\ (place[1] \in LowerSet \/ place[1] \in DigitSet) THEN 10 ELSE 0)
        - (IF place # <<>> /\ place[1] \in {"=", "-", ">", "<"} THEN 20 ELSE 0)

\* _select_best_description (1552-1606)
SelectBestDescription(place_a, place_b) ==
    IF ScoreDescription(place_a) >= ScoreDescription(place_b) THEN place_a ELSE place_b

\* printable ASCII characters in code order, for comparing strings
AsciiSeq ==
    <<" ", "!", "\"", "#", "$", "%", "&", "'", "(", ")", "*", "+", ",", "-", ".", "/">>
    \o DigitSeq \o <<":", ";", "<", "=", ">", "?", "@">> \o UpperSeq
    \o <<"[", "\\", "]", "^", "_">> \o LowerSeq \o <<"{", "|", "}", "~">>
Ord(c) == CHOOSE k \in DOMAIN AsciiSeq : AsciiSeq[k] = c
\* a < b for Python strings
StrLess(a, b) ==
    LET diff == {k \in 1..(IF Len(a) < Len(b) THEN Len(a) ELSE Len(b)) : a[k] # b[k]}
    IN  IF diff = {} THEN Len(a) < Len(b) ELSE Ord(a[SetMin(diff)]) < Ord(b[SetMin(diff)])

\* the date string with the year first, a key that orders MM/DD/YYYY dates by time
YearFirst(t) ==
    LET date == Get(t, "Transaction Date", <<>>)
    IN  IF Len(date) = 10 THEN Slice(date, 7, 10) \o Slice(date, 1, 5) ELSE date
\* a stable sort by year, month and day
RECURSIVE SortChronologically(_)
InsertChronologically(sorted, t) ==
    LET after == {k \in DOMAIN sorted : StrLess(YearFirst(t), YearFirst(sorted[k]))}
        at == IF after = {} THEN Len(sorted) + 1 ELSE SetMin(after)
    IN  SubSeq(sorted, 1, at - 1) \o <<t>> \o SubSeq(sorted, at, Len(sorted))
SortChronologically(ts) ==
    IF ts = <<>> THEN <<>>
    ELSE InsertChronologically(SortChronologically(SubSeq(ts, 1, Len(ts) - 1)), ts[Len(ts)])

\* list.sort(key = 'Transaction Date'), which is stable
RECURSIVE SortByDate(_)
InsertByDate(sorted, t) ==
    LET key(x) == Get(x, "Transaction Date", <<>>)
        after == {k \in DOMAIN sorted : StrLess(key(t), key(sorted[k]))}
        at == IF after = {} THEN Len(sorted) + 1 ELSE SetMin(after)
    IN  SubSeq(sorted, 1, at - 1) \o <<t>> \o SubSeq(sorted, at, Len(sorted))
SortByDate(ts) == IF ts = <<>> THEN <<>> ELSE InsertByDate(SortByDate(SubSeq(ts, 1, Len(ts) - 1)), ts[Len(ts)])

\* trans.get('Amount', trans.get('Debits', trans.get('Credits', 0))) (1636, 1647, 1669)
MatchAmount(t) == Get(t, "Amount", Get(t, "Debits", Get(t, "Credits", 0)))

\* abs(float(a) - float(b)) < 0.02 on amounts of whole cents (1650).  A
\* difference of exactly two cents is below 0.02 or not depending on how the two
\* binary fractions round (0.03 - 0.01 is below, 20.01 - 19.99 is not):
\* two_cent says which way the pair at hand rounds.
WithinTolerance(a, b, two_cent) ==
    LET d == IF a >= b THEN a - b ELSE b - a IN d < 2 \/ (d = 2 /\ two_cent)

\* lines 1642-1653: the index of the first unmatched B record that matches
\* trans_a, 0 when none; raises = TRUE when float(None) is evaluated on the way
FindMatch(trans_a, transactions_b, matched_b, two_cent) ==
    LET same_date == {k \in DOMAIN transactions_b :
                          k \notin matched_b
                          /\ Get(trans_a, "Transaction Date", <<>>) = Get(transactions_b[k], "Transaction Date", <<>>)}
        hit(k) == WithinTolerance(MatchAmount(trans_a), MatchAmount(transactions_b[k]), two_cent)
        boom(k) == MatchAmount(trans_a) = NoneAmount \/ MatchAmount(transactions_b[k]) = NoneAmount
        stop == {k \in same_date : boom(k) \/ hit(k)}
    IN  IF stop = {} THEN [idx |-> 0, raises |-> FALSE]
        ELSE IF boom(SetMin(stop)) THEN [idx |-> 0, raises |-> TRUE]
        ELSE [idx |-> SetMin(stop), raises |-> FALSE]

MethodLabel(method_a, method_b) == method_a \o <<" ","(","m","a","t","c","h","e","d"," ","w","i","t","h"," ">> \o method_b \o <<")">>
OnlyLabel(method) == method \o <<" ","o","n","l","y">>

\* the state of the merge: the merged list, the B indices matched, for every A
\* record handled so far the index best_match_idx of its match in B (0 for None),
\* the originals selected for re-cleaning in merge order, the cache, the model
\* requests issued, and whether an exception escaped
MergeState(merged, cache) ==
    [merged |-> merged, matched_b |-> {}, pairs |-> <<>>, selected |-> <<>>, cache |-> cache, requests |-> 0,
     raises |-> FALSE]
\* lines 1660-1661
PlaceOriginal(t) == Get(t, "Place_Original", Get(t, "Place", <<>>))
\* lines 1658, 1673-1678: c is the re-cleaning of selected_original
Matched(st, trans_a, idx, selected_original, c, method_a, method_b) ==
    [merged |-> Append(st.merged,
                       ("Place" :> c.name) @@ ("Place_Original" :> selected_original)
                       @@ ("_extraction_method" :> MethodLabel(method_a, method_b)) @@ trans_a),
     matched_b |-> st.matched_b \cup {idx},
     pairs |-> Append(st.pairs, idx),
     selected |-> Append(st.selected, selected_original),
     cache |-> c.cache, requests |-> st.requests + c.requests, raises |-> FALSE]
\* lines 1656-1678
MergeMatch(st, trans_a, idx, selected_original, method_a, method_b, llm_available, svc) ==
    Matched(st, trans_a, idx, selected_original,
            CleanMerchantNameWithContext(st.cache, llm_available, selected_original, svc.s1, svc.s2),
            method_a, method_b)
\* the body of the loop of pass 1 (1635-1684): m is the outcome of the search in B
MergeOne(st, trans_a, transactions_b, m, method_a, method_b, llm_available, svc) ==
    IF m.raises THEN [st EXCEPT !.raises = TRUE]
    ELSE IF m.idx > 0
         THEN MergeMatch(st, trans_a, m.idx,
                         SelectBestDescription(PlaceOriginal(trans_a), PlaceOriginal(transactions_b[m.idx])),
                         method_a, method_b, llm_available, svc)
    ELSE [st EXCEPT !.merged = Append(st.merged, ("_extraction_method" :> OnlyLabel(method_a)) @@ trans_a),
                    !.pairs = Append(st.pairs, 0)]

\* pass 1 (1634-1684)
RECURSIVE MergePass(_, _, _, _, _, _, _, _, _)
MergePass(transactions_a, transactions_b, method_a, method_b, k, st, llm_available, svc, two_cent) ==
    IF k > Len(transactions_a) \/ st.raises THEN st
    ELSE MergePass(transactions_a, transactions_b, method_a, method_b, k + 1,
                   MergeOne(st, transactions_a[k], transactions_b,
                            FindMatch(transactions_a[k], transactions_b, st.matched_b, two_cent),
                            method_a, method_b, llm_available, svc),
                   llm_available, svc, two_cent)

\* pass 2 and the sort (1686-1694)
OnlyB(transactions_b, unmatched, method_b) ==
    [j \in 1..Cardinality(unmatched) |->
        ("_extraction_method" :> OnlyLabel(method_b)) @@ transactions_b[Nth(unmatched, j)]]
AddUnmatched(p1, transactions_b, method_b) ==
    IF p1.raises THEN p1
    ELSE [p1 EXCEPT !.merged = SortByDate(p1.merged \o OnlyB(transactions_b,
                                              {k \in DOMAIN transactions_b : k \notin p1.matched_b}, method_b))]

\* cross_reference_transactions (1608-1703)
CrossReferenceTransactions(transactions_a, transactions_b, method_a, method_b, cache, llm_available, svc, two_cent) ==
    IF transactions_a = <<>> /\ transactions_b = <<>> THEN MergeState(<<>>, cache)
    ELSE IF transactions_a = <<>> THEN MergeState(transactions_b, cache)
    ELSE IF transactions_b = <<>> THEN MergeState(transactions_a, cache)
    ELSE AddUnmatched(MergePass(transactions_a, transactions_b, method_a, method_b, 1,
                                MergeState(<<>>, cache), llm_available, svc, two_cent),
                      transactions_b, method_b)
(***************************************************************************)
(* Classifier, dual extraction and parse_pdf.                              *)
(***************************************************************************)
\* the keyword lists the constructor loads from the configuration directory
\* and upper-cases (lines 48-54)
income_keywords == {<<"P","A","Y","R","O","L","L">>, <<"D","I","R","E","C","T"," ","D","E","P">>}
payment_apps == {<<"C","A","S","H"," ","A","P","P">>, <<"V","E","N","M","O">>}
transfer_keywords == {<<"T","R","A","N","S","F","E","R"," ","T","O"," ","S","A","V","I","N","G","S">>}

\* llm_classify_transaction (576-614) for one outcome of its model call:
\* [answer, requests]
LlmClassifyTransaction(llm_available, outcome) ==
    IF ~llm_available THEN [answer |-> "expense", requests |-> 0]
    ELSE [answer |-> IF outcome.kind = "ok" /\ Contains(Lower(Strip(outcome.text)), <<"i","n","c","o","m","e">>)
                     THEN "income" ELSE "expense",
          requests |-> 1]

IsPaymentApp(trans) ==
    LET place == Upper(Get(trans, "Place", <<>>))
        place_original == Upper(Get(trans, "Place_Original", place))
    IN  \E app \in payment_apps : Contains(place, app) \/ Contains(place_original, app)
IsIncomeKeyword(trans) ==
    LET place_original == Upper(Get(trans, "Place_Original", Upper(Get(trans, "Place", <<>>))))
    IN  \E keyword \in income_keywords : Contains(place_original, keyword)

\* a decision by the amount columns alone, whatever the kind of statement
DecideByColumns(trans, is_bank_account, llm_available, outcome) ==
    [to |-> IF Positive(trans, "Credits") THEN "income" ELSE "expense", asks |-> FALSE]

\* a decision that looks at the Debits column before the Credits column
DecideDebitsFirst(trans, is_bank_account, llm_available, outcome) ==
    IF ~is_bank_account \/ Positive(trans, "Debits") THEN [to |-> "expense", asks |-> FALSE]
    ELSE IF Positive(trans, "Credits") \/ (Positive(trans, "Amount") /\ IsIncomeKeyword(trans))
         THEN [to |-> "income", asks |-> FALSE]
    ELSE [to |-> "expense", asks |-> FALSE]

\* the list one transaction goes to (1745-1776): "income", "expense", or "none"
\* when no branch appends it; asks = TRUE when the model is asked
Decide(trans, is_bank_account, llm_available, outcome) ==
    IF ~is_bank_account THEN [to |-> "expense", asks |-> FALSE]
    ELSE IF Positive(trans, "Credits") THEN [to |-> "income", asks |-> FALSE]
    ELSE IF Positive(trans, "Debits") THEN [to |-> "expense", asks |-> FALSE]
    ELSE IF Positive(trans, "Amount")
         THEN IF IsIncomeKeyword(trans) THEN [to |-> "income", asks |-> FALSE]
              ELSE IF llm_available /\ IsPaymentApp(trans)
                   THEN [to |-> LlmClassifyTransaction(llm_available, outcome).answer, asks |-> TRUE]
              ELSE [to |-> "expense", asks |-> FALSE]
    ELSE [to |-> "none", asks |-> FALSE]

\* the transaction as the loop leaves it (1741-1743)
Marked(trans) == IF IsPaymentApp(trans) THEN ("_manual_review" :> TRUE) @@ trans ELSE trans

\* classify_transactions (1724-1778); outcomes[k] is the outcome of the model
\* call for transactions[k] if one is made
ClassifyTransactions(transactions, is_bank_account, llm_available, outcomes) ==
    LET d == [k \in DOMAIN transactions |-> Decide(transactions[k], is_bank_account, llm_available, outcomes[k])]
        pick(to) == LET ks == {k \in DOMAIN transactions : d[k].to = to}
                    IN  [j \in 1..Cardinality(ks) |-> Marked(transactions[Nth(ks, j)])]
    IN  [income |-> pick("income"), expenses |-> pick("expense"),
         requests |-> Cardinality({k \in DOMAIN transactions : d[k].asks})]

\* filter_transfers (1705-1722): the transactions kept
FilterTransfers(transactions) ==
    SelectSeq(transactions,
              LAMBDA trans : ~\E keyword \in transfer_keywords :
                                 Contains(Upper(Get(trans, "Place_Original", Get(trans, "Place", <<>>))), keyword))

BankIndicators == {<<"C","H","E","C","K","I","N","G">>, <<"S","A","V","I","N","G","S">>, <<"A","C","C","O","U","N","T"," ","A","C","T","I","V","I","T","Y">>, <<"B","E","G","I","N","N","I","N","G"," ","B","A","L","A","N","C","E">>, <<"E","N","D","I","N","G"," ","B","A","L","A","N","C","E">>}
CreditIndicators ==
    {<<"V","I","S","A">>, <<"M","A","S","T","E","R","C","A","R","D">>, <<"A","M","E","X">>, <<"D","I","S","C","O","V","E","R">>, <<"C","R","E","D","I","T"," ","C","A","R","D">>, <<"M","I","N","I","M","U","M"," ","P","A","Y","M","E","N","T"," ","D","U","E">>,
     <<"C","A","R","D"," ","A","C","C","O","U","N","T">>, <<"S","T","A","T","E","M","E","N","T"," ","C","L","O","S","I","N","G">>}
\* is_credit_card (709-723) on the lines of the text (no indicator holds a line break)
IsCreditCard(lines) ==
    /\ ~\E k \in DOMAIN lines : \E ind \in BankIndicators : Contains(Upper(lines[k]), ind)
    /\ \E k \in DOMAIN lines : \E ind \in CreditIndicators : Contains(Upper(lines[k]), ind)

YearPatterns ==
    <<Cat(<<Alt(<<Lit(<<"b","i","l","l","i","n","g"," ","c","y","c","l","e">>), Lit(<<"s","t","a","t","e","m","e","n","t">>)>>), RepLazyInf(Dot, 0), Lit(<<"e","n","d","i","n","g">>), RepLazyInf(Dot, 0), Rep(Cls(DigitSet), 1, 2), Lit(<<"/">>), Rep(Cls(DigitSet), 1, 2), Lit(<<"/">>), Rep(Cls(DigitSet), 4, 4)>>),
      Cat(<<Lit(<<"s","t","a","t","e","m","e","n","t"," ","c","l","o","s","i","n","g"," ","d","a","t","e">>), RepLazyInf(Dot, 0), Rep(Cls(DigitSet), 1, 2), Lit(<<"/">>), Rep(Cls(DigitSet), 1, 2), Lit(<<"/">>), Rep(Cls(DigitSet), 2, 4)>>),
      Cat(<<Lit(<<"s","t","a","t","e","m","e","n","t"," ","d","a","t","e">>), RepLazyInf(Dot, 0), Rep(Cls(DigitSet), 1, 2), Lit(<<"/">>), Rep(Cls(DigitSet), 1, 2), Lit(<<"/">>), Rep(Cls(DigitSet), 4, 4)>>),
      Cat(<<Lit(<<"f","o","r","b","i","l","l","i","n","g"," ","c","y","c","l","e","e","n","d","i","n","g"," ">>), Rep(Cls(DigitSet), 1, 2), Lit(<<"/">>), Rep(Cls(DigitSet), 1, 2), Lit(<<"/">>), Rep(Cls(DigitSet), 2, 2)>>),
      Cat(<<Lit(<<"f","o","r"," ","b","i","l","l","i","n","g"," ","c","y","c","l","e"," ","e","n","d","i","n","g"," ">>), Rep(Cls(DigitSet), 1, 2), Lit(<<"/">>), Rep(Cls(DigitSet), 1, 2), Lit(<<"/">>), Rep(Cls(DigitSet), 2, 2)>>)>>
\* the fallback of extract_statement_year: datetime.now().year
ClockYear == 2025

\* int(year_str), with 2000 added to a two-digit year (lines 700-703)
YearOf(year_str) == IF Len(year_str) = 2 THEN 2000 + ParseInt(year_str) ELSE ParseInt(year_str)
\* group 1 of the match m in line: what follows the last "/" of the match
YearGroup(line, m) == YearOf(Last(SplitOn(Slice(line, m[1], m[2] - 1), "/")))
\* re.search(pattern, text_lower) line by line: the lines that hold a match, in order
LinesMatching(lines, pattern) ==
    SelectSeq([k \in DOMAIN lines |-> [line |-> Lower(lines[k]), m |-> Search(pattern, Lower(lines[k]), FALSE)]],
              LAMBDA x : x.m # <<>>)

\* extract_statement_year (680-707).  No pattern matches across a line break, so
\* the leftmost match in the text is the match in the first line that has one.
RECURSIVE YearFrom(_, _)
YearOrNext(lines, p, found) ==
    IF found = <<>> THEN YearFrom(lines, p + 1) ELSE YearGroup(found[1].line, found[1].m)
YearFrom(lines, p) ==
    IF p > Len(YearPatterns) THEN ClockYear ELSE YearOrNext(lines, p, LinesMatching(lines, YearPatterns[p]))
ExtractStatementYear(lines) == YearFrom(lines, 1)

\* text.split('\n') of the text an extraction method accumulated from its pages
\* (page_text + '\n\n' for every page): the model keeps a text as its lines
TextOf(lines) == IF lines = <<>> THEN <<>> ELSE Join(lines, <<"\n">>) \o <<"\n", "\n">>
\* len(text.strip()) > 100 (819, 845)
UsableText(lines) == Len(StripSet(TextOf(lines), SpaceSet \cup {"\n"})) > 100
\* the list text.split('\n') hands to the loop of parse_transactions
SplitLines(lines) == IF lines = <<>> THEN <<<<>>>> ELSE lines \o <<<<>>, <<>>>>
\* What the environment holds for one document:
\*   text_pdf      the lines pdfplumber's pages add up to before it finishes or raises
\*   text_ocr      the lines OCR of the page images adds up to when it runs
\*   tesseract_ok  whether pytesseract finds the engine (text_extractor.py 34-42)
\*   convert_ok    whether PDF2ImageConvertor.convert returns the images
Document(text_pdf, text_ocr, tesseract_ok, convert_ok) ==
    [text_pdf |-> text_pdf, text_ocr |-> text_ocr, tesseract_ok |-> tesseract_ok, convert_ok |-> convert_ok]

\* the parser object: the fields the extraction reads and writes
ParserObject(merchant_cache, llm_available, pdf_converter, text_extractor) ==
    [merchant_cache |-> merchant_cache, llm_available |-> llm_available,
     pdf_converter |-> pdf_converter, text_extractor |-> text_extractor]

\* lines 817-824 and 843-850: parse and validate the text of one method
Validated(p, method) ==
    [transactions |-> p.transactions, validation |-> ValidateTransactions(p.transactions, method),
     cache |-> p.cache, requests |-> p.requests]
ParseAndValidate(lines, method, cache, llm_available, svc) ==
    IF UsableText(lines)
    THEN Validated(ParseTransactions(SplitLines(lines), ExtractStatementYear(SplitLines(lines)),
                                     cache, llm_available, svc),
                   method)
    ELSE [transactions |-> <<>>, validation |-> ("valid" :> FALSE) @@ ("score" :> 0),
          cache |-> cache, requests |-> 0]

\* lines 828-830: self.text_extractor after the lazy construction
ExtractorAfterInit(obj, doc) == IF ~obj.pdf_converter THEN doc.tesseract_ok ELSE obj.text_extractor
\* lines 832-841: a failure of convert or of extract_text leaves text_ocr empty
OcrText(obj, doc) == IF ExtractorAfterInit(obj, doc) /\ doc.convert_ok THEN doc.text_ocr ELSE <<>>

\* what extract_text_dual_method returns, and the exception that escapes it
Extraction(text, method, transactions, validation, raises) ==
    [text |-> text, method |-> method, transactions |-> transactions, validation |-> validation,
     raises |-> raises]
BestMethod(pdf_first) ==
    IF pdf_first THEN <<"p","d","f","p","l","u","m","b","e","r"," ","+"," ","O","C","R"," ","(","m","e","r","g","e","d",")">> ELSE <<"O","C","R"," ","+"," ","p","d","f","p","l","u","m","b","e","r"," ","(","m","e","r","g","e","d",")">>
\* lines 859-890: pdf and ocr are the results of the two methods, x of the merge
Choose(text_pdf, text_ocr, pdf, ocr, x, pdf_first) ==
    IF pdf.transactions # <<>> /\ ocr.transactions # <<>>
    THEN IF x.raises THEN Extraction(<<>>, <<>>, <<>>, <<>>, "TypeError")
         ELSE Extraction(IF pdf_first THEN text_pdf ELSE text_ocr, BestMethod(pdf_first), x.merged,
                         ("valid" :> TRUE)
                         @@ ("score" :> (IF pdf_first THEN pdf.validation["score"] ELSE ocr.validation["score"]))
                         @@ ("transaction_count" :> Len(x.merged))
                         @@ ("method" :> BestMethod(pdf_first))
                         @@ ("issues" :> <<>>),
                         "no")
    ELSE IF pdf.transactions # <<>> THEN Extraction(text_pdf, <<"p","d","f","p","l","u","m","b","e","r">>, pdf.transactions, pdf.validation, "no")
    ELSE IF ocr.transactions # <<>> THEN Extraction(text_ocr, <<"O","C","R">>, ocr.transactions, ocr.validation, "no")
    ELSE IF pdf_first
         THEN Extraction(text_pdf, <<"p","d","f","p","l","u","m","b","e","r"," ","(","l","o","w"," ","q","u","a","l","i","t","y",")">>, pdf.transactions, pdf.validation, "no")
    ELSE Extraction(text_ocr, <<"O","C","R"," ","(","l","o","w"," ","q","u","a","l","i","t","y",")">>, ocr.transactions, ocr.validation, "no")

\* the extraction together with the parser object afterwards, the model requests
\* issued, what each method parsed and how it was validated
Extracted(obj, doc, pdf, ocr, x, chosen) ==
    [text |-> chosen.text, method |-> chosen.method, transactions |-> chosen.transactions,
     validation |-> chosen.validation, raises |-> chosen.raises,
     obj |-> ParserObject(x.cache, obj.llm_available, TRUE, ExtractorAfterInit(obj, doc)),
     requests |-> pdf.requests + ocr.requests + x.requests,
     transactions_pdf |-> pdf.transactions, transactions_ocr |-> ocr.transactions,
     validation_pdf |-> pdf.validation, validation_ocr |-> ocr.validation]
\* lines 852-890
Merge(obj, doc, pdf, ocr, x) ==
    Extracted(obj, doc, pdf, ocr, x,
              Choose(doc.text_pdf, OcrText(obj, doc), pdf, ocr, x,
                     pdf.validation["score"] >= ocr.validation["score"]))
CrossReference(obj, doc, pdf, ocr, svc, two_cent) ==
    Merge(obj, doc, pdf, ocr,
          CrossReferenceTransactions(pdf.transactions, ocr.transactions, <<"p","d","f","p","l","u","m","b","e","r">>, <<"O","C","R">>,
                                     ocr.cache, obj.llm_available, svc, two_cent))
\* lines 826-890 after method 1 returned pdf.  TextExtract() at line 830, which no
\* try block encloses, raises RuntimeError when the OCR engine is missing.
Method2(obj, doc, pdf, svc, two_cent) ==
    IF ~obj.pdf_converter /\ ~doc.tesseract_ok
    THEN Extracted(obj, doc, pdf,
                   [transactions |-> <<>>, validation |-> ("valid" :> FALSE) @@ ("score" :> 0), requests |-> 0],
                   [cache |-> pdf.cache, requests |-> 0],
                   Extraction(<<>>, <<>>, <<>>, <<>>, "RuntimeError"))
    ELSE CrossReference(obj, doc, pdf,
                        ParseAndValidate(OcrText(obj, doc), <<"O","C","R">>, pdf.cache, obj.llm_available, svc),
                        svc, two_cent)

\* extract_text_dual_method (796-890).  two_cent: see WithinTolerance.
ExtractTextDualMethod(obj, doc, svc, two_cent) ==
    Method2(obj, doc, ParseAndValidate(doc.text_pdf, <<"p","d","f","p","l","u","m","b","e","r">>, obj.merchant_cache, obj.llm_available, svc),
            svc, two_cent)

\* parse_pdf when an exception escapes: nothing is returned and nothing is saved
Escaped(e, raises) ==
    [raises |-> raises, income |-> <<>>, expenses |-> <<>>, is_bank_account |-> FALSE, processed |-> <<>>,
     obj |-> e.obj, saved |-> FALSE, requests |-> e.requests,
     transactions_pdf |-> e.transactions_pdf, transactions_ocr |-> e.transactions_ocr]
\* lines 1803-1804: the transactions of the extraction, or a parse of its text
Reparse(obj, e, lines, svc) ==
    IF e.transactions = <<>>
    THEN ParseTransactions(lines, ExtractStatementYear(lines), e.obj.merchant_cache, obj.llm_available, svc)
    ELSE [transactions |-> e.transactions, cache |-> e.obj.merchant_cache, requests |-> 0]
\* lines 1808-1831: c is what classify_transactions returned
Returned(e, again, is_bank_account, c) ==
    [raises |-> "no", income |-> c.income, expenses |-> c.expenses, is_bank_account |-> is_bank_account,
     processed |-> again.transactions,
     obj |-> [e.obj EXCEPT !.merchant_cache = again.cache],
     saved |-> again.cache # <<>>,
     requests |-> e.requests + again.requests + c.requests,
     transactions_pdf |-> e.transactions_pdf, transactions_ocr |-> e.transactions_ocr]
\* lines 1797-1831
Classify(obj, e, again, is_bank_account, outcomes) ==
    Returned(e, again, is_bank_account,
             ClassifyTransactions(FilterTransfers(again.transactions), is_bank_account, obj.llm_available, outcomes))
DetectAndParse(obj, e, lines, svc, outcomes) ==
    Classify(obj, e, Reparse(obj, e, lines, svc), ~IsCreditCard(lines), outcomes)

\* parse_pdf (1780-1831): what the caller gets.  raises names the exception that
\* escapes ("no" when none): the one of extract_text_dual_method, or KeyError
\* when line 1792 reads validation['issues'] from a validation result without
\* that key.  The bank name, which only labels the output, is left out.
\* outcomes: the outcome of the classification call for each transaction.
AfterExtraction(obj, e, svc, outcomes) ==
    IF e.raises # "no" THEN Escaped(e, e.raises)
    ELSE IF "issues" \notin DOMAIN e.validation THEN Escaped(e, "KeyError")
    ELSE DetectAndParse(obj, e, SplitLines(e.text), svc, outcomes)
ParsePdf(obj, doc, svc, two_cent, outcomes) ==
    AfterExtraction(obj, ExtractTextDualMethod(obj, doc, svc, two_cent), svc, outcomes)
(***************************************************************************)
(* State.  The first four variables are the fields of the HybridPDFParser  *)
(* object that the operations read and write; the next five are the locals *)
(* of parse_transactions while it runs; calls counts the operations started *)
(* in this process and last records the operation performed last, with its *)
(* inputs and what it returned.  cache_file is merchant_cache.json on disk *)
(* and runs holds the processes that run against it at the same time, each *)
(* with its own parser object.                                             *)
(***************************************************************************)
VARIABLES merchant_cache, llm_available, pdf_converter, text_extractor,
          lines, statement_year, i, in_transaction_section, transactions, calls, last,
          cache_file, runs

vars == <<merchant_cache, llm_available, pdf_converter, text_extractor,
          lines, statement_year, i, in_transaction_section, transactions, calls, last,
          cache_file, runs>>

\* how many operations one process performs
MaxCalls == 2

Idle == [op |-> "none"]
NoLoop ==
    lines = <<>> /\ statement_year = 0 /\ i = 1 /\ in_transaction_section = FALSE /\ transactions = <<>>
LoopUnchanged == UNCHANGED <<lines, statement_year, i, in_transaction_section, transactions>>
ObjectUnchanged == UNCHANGED <<merchant_cache, llm_available, pdf_converter, text_extractor>>
Called == calls' = calls + 1
\* the processes that share the cache file
Runs == {1, 2}
\* a process before __init__: found is the file as _load_merchant_cache found
\* it, written what _save_merchant_cache handed to json.dump, overlapped whether
\* another process had the file open for writing while this one had
NotStarted ==
    [pc |-> "not started", merchant_cache |-> <<>>, found |-> Missing, written |-> Missing,
     overlapped |-> FALSE]
NotRunning == [r \in Runs |-> NotStarted]
DiskUnchanged == UNCHANGED <<cache_file, runs>>

\* what merchant_cache.json and the output files can have put into the cache
\* (_load_merchant_cache, 119-172)
SeededCaches == {<<>>, (<<"W","A","L","M","A","R","T"," ","#","4","3","5","2">> :> <<"W","a","l","l","y"," ","W","o","r","l","d">>)}

\* __init__ (55-117): the cache is loaded, the model service is probed, the
\* converter and the OCR extractor are created on first use
Init ==
    /\ merchant_cache \in SeededCaches
    /\ llm_available \in BOOLEAN
    /\ pdf_converter = FALSE /\ text_extractor = FALSE
    /\ NoLoop
    /\ calls = 0
    /\ last = Idle
    /\ cache_file = Missing /\ runs = NotRunning

\* an outcome that is a network error, a timeout, a non-200 status or a
\* response without usable text
Failed(outcome) == outcome.kind # "ok" \/ Strip(outcome.text) = <<>>
AllFailed(script) == \A k \in DOMAIN script : Failed(script[k])

(***************************************************************************)
(* The Merchant Name Normalizer and the model calls.                       *)
(***************************************************************************)
RawNames == {<<"W","A","L","M","A","R","T"," ","#","4","3","5","2">>, <<"S","Q","S","P","*"," ","I","N","V","1","6","5","8","6","6","6","9","2">>, <<"W","L"," ","*","S","T","E","A","M"," ","P","U","R","C","H","A","S","E">>, <<"T","a","r","g","e","t">>}
Unreachable == <<Raise, Status500, BadJson>>
Blank == <<Ok(<<>>), Raise, Ok(<<" ">>)>>
Partial == <<Status500, Ok(<<"W","a","l","m","a","r","t"," ","S","u","p","e","r","c","e","n","t","e","r">>), Raise>>
Answering == <<Ok(<<"S","t","e","a","m"," ","G","a","m","e","s">>), Ok(<<"T","H","E"," ","S","T","E","A","M"," ","S","T","O","R","E">>), Ok(<<"M","e","r","c","h","a","n","t",":"," ","n","o","n","e">>)>>
Scripts == {Unreachable, Blank, Partial, Answering}
\* answers that differ in case only, answers two of which score the same, and a
\* failed call followed by two answers
SameButCase == <<Ok(<<"w","a","l","m","a","r","t">>), Ok(<<"W","a","l","m","a","r","t">>), Ok(<<"W","A","L","M","A","R","T">>)>>
Tied == <<Ok(<<"S","t","e","a","m"," ","P","u","r","c","h","a","s","e">>), Ok(<<"S","t","e","a","m"," ","G","a","m","e","s">>), Ok(<<"V","a","l","v","e"," ","G","a","m","e","s">>)>>
TwoAnswers == <<Raise, Ok(<<"F","a","r","g","o"," ","S","t","e","a","m">>), Ok(<<"S","t","e","a","m">>)>>
VoteScripts == {SameButCase, Tied, TwoAnswers}
Services ==
    {Service(s, s) : s \in Scripts}
    \cup {Service(Unreachable, Answering), Service(Answering, Blank)}
ClassifyOutcomes ==
    {Raise, Status500, BadJson, Ok(<<>>), Ok(<<" ","I","n","c","o","m","e">>), Ok(<<"e","x","p","e","n","s","e">>),
     Ok(<<"I","t"," ","i","s"," ","i","n","c","o","m","e",","," ","n","o","t"," ","a","n"," ","e","x","p","e","n","s","e">>), Ok(<<"u","n","s","u","r","e">>)}

NormalizeReturns(raw, svc, r) ==
    /\ merchant_cache' = r.cache
    /\ last' = [op |-> "normalize", raw |-> raw, svc |-> svc, name |-> r.name, requests |-> r.requests,
                hit |-> r.hit, before |-> merchant_cache]
\* _clean_merchant_name_with_context(raw) while the service behaves as svc
Normalize ==
    /\ calls < MaxCalls
    /\ \E raw \in RawNames, svc \in Services :
           NormalizeReturns(raw, svc,
                            CleanMerchantNameWithContext(merchant_cache, llm_available, raw, svc.s1, svc.s2))
    /\ Called
    /\ DiskUnchanged
    /\ UNCHANGED <<llm_available, pdf_converter, text_extractor>>
    /\ LoopUnchanged

LlmCleanReturns(merchant, script, r) ==
    last' = [op |-> "llm_clean", merchant |-> merchant, script |-> script, name |-> r.name,
             requests |-> r.requests]
\* llm_clean_merchant_name(merchant) while the three calls end as script says
LlmCleanCall ==
    /\ calls < MaxCalls
    /\ \E merchant \in RawNames, script \in Scripts \cup VoteScripts :
           LlmCleanReturns(merchant, script, LlmClean(merchant, llm_available, script))
    /\ Called
    /\ DiskUnchanged
    /\ ObjectUnchanged /\ LoopUnchanged

LlmClassifyReturns(outcome, r) ==
    last' = [op |-> "llm_classify", outcome |-> outcome, answer |-> r.answer, requests |-> r.requests]
\* llm_classify_transaction(place, amount) while the call ends as outcome says
LlmClassifyCall ==
    /\ calls < MaxCalls
    /\ \E outcome \in ClassifyOutcomes :
           LlmClassifyReturns(outcome, LlmClassifyTransaction(llm_available, outcome))
    /\ Called
    /\ DiskUnchanged
    /\ ObjectUnchanged /\ LoopUnchanged

NextNormalizer == Normalize \/ LlmCleanCall \/ LlmClassifyCall
SpecNormalizer == Init /\ [][NextNormalizer]_vars
(***************************************************************************)
(* Properties of the normalizer and of the model calls.                    *)
(***************************************************************************)
Normalized == last.op = "normalize"
CacheHit == Normalized /\ Len(last.raw) >= 3 /\ CacheKey(last.raw) \in DOMAIN last.before

\* C1: a call of _clean_merchant_name_with_context on a raw name of length >= 3
\* whose upper-cased, trimmed key is in the merchant cache returns the cached
\* value, issues no model request and leaves the cache as it was, whatever the
\* model service answers; a repeated call therefore returns what the first
\* call stored.
C1_CacheHitReturnsCached ==
    CacheHit =>
        /\ last.name = last.before[CacheKey(last.raw)]
        /\ last.requests = 0
        /\ merchant_cache = last.before

\* a second call on a name the first call of this process stored, with the
\* model available and answering
C1_Witness ==
    /\ CacheHit /\ last.hit /\ calls = 2
    /\ last.raw = <<"W","L"," ","*","S","T","E","A","M"," ","P","U","R","C","H","A","S","E">>
    /\ llm_available /\ last.svc = Service(Answering, Answering)

SqspMiss ==
    /\ Normalized
    /\ StartsWith(Upper(last.raw), <<"S","Q","S","P","*">>)
    /\ CacheKey(last.raw) \notin DOMAIN last.before

\* C4: normalizing a raw name that begins with the SQSP* processor prefix, with
\* no cache entry for it, returns exactly "Squarespace" and issues no model
\* request, with the model service unavailable and with it available, for every
\* model response.
C4_SqspShortCircuit == SqspMiss => last.name = <<"S","q","u","a","r","e","s","p","a","c","e">> /\ last.requests = 0

\* the rule-based result for a raw name: the pattern phase followed by the
\* title-case fallback, as _clean_merchant_name computes it without a model
RuleBased(raw) == CleanMerchantName(raw, FALSE, <<>>).name

\* C10: failing model calls never change the outcome: when all three cleaning
\* calls fail (network error, timeout, non-200 status, response without usable
\* text) llm_clean_merchant_name returns its input unchanged, a normalization
\* all of whose model calls fail returns the rule-based result, and a failed or
\* unavailable classification call yields "expense".
C10_FailedCallsFallBack ==
    /\ (last.op = "llm_clean" /\ AllFailed(last.script)) => last.name = last.merchant
    /\ (Normalized /\ ~CacheHit /\ AllFailed(last.svc.s1) /\ AllFailed(last.svc.s2))
           => last.name = RuleBased(last.raw)
    /\ (last.op = "llm_classify" /\ (Failed(last.outcome) \/ ~llm_available)) => last.answer = "expense"

\* the model is available and three calls were issued, each of which failed in
\* a different way
C10_Witness ==
    /\ last.op = "llm_clean" /\ llm_available
    /\ last.script = Unreachable /\ last.requests = 3
    /\ last.name = last.merchant

CacheMiss == Normalized /\ Len(last.raw) >= 3 /\ CacheKey(last.raw) \notin DOMAIN last.before
\* the name returned is in the cache under the key of the raw name
Stored ==
    /\ CacheKey(last.raw) \in DOMAIN merchant_cache
    /\ merchant_cache[CacheKey(last.raw)] = last.name
\* the next normalization of the same raw name is a hit returning the same name
SameNameLater ==
    (CacheMiss /\ last'.op = "normalize" /\ last'.raw = last.raw)
        => (last'.hit /\ last'.name = last.name)

\* C14: after any normalization of a raw name that misses the cache, the final
\* returned name is stored in the cache under the raw name's uppercase-trimmed
\* key, so every later normalization of the same raw name in the same process
\* is a cache hit returning that same name, even if the model service would
\* answer differently the second time.
C14_MissStoresResult == [](CacheMiss => Stored) /\ [][SameNameLater]_vars

\* what the code does: the result is stored when it differs from the raw name
\* (lines 1298 and 1302-1303), and a stored name is what later calls return
C14_ChangedNameStored == (CacheMiss /\ last.name # last.raw) => Stored
C14_StoredNameKept ==
    [][(CacheMiss /\ Stored /\ last'.op = "normalize" /\ last'.raw = last.raw)
           => (last'.hit /\ last'.name = last.name)]_vars
\* a name the rules leave as it is, normalized while the model calls fail, is
\* returned without a cache entry
C14_UnchangedNameNotStored ==
    /\ CacheMiss /\ last.raw = <<"T","a","r","g","e","t">> /\ last.name = <<"T","a","r","g","e","t">>
    /\ llm_available /\ AllFailed(last.svc.s1) /\ AllFailed(last.svc.s2)
    /\ CacheKey(last.raw) \notin DOMAIN merchant_cache
\* the second normalization of that name, the model now answering, returns
\* another name
C14_SecondCallDiffers ==
    /\ CacheMiss /\ calls = 2 /\ last.raw = <<"T","a","r","g","e","t">> /\ last.name = <<"S","t","e","a","m">>
    /\ last.before = <<>>

\* every key of the cache is a key of the next cache, with the same value
EntriesKept ==
    \A k \in DOMAIN merchant_cache :
        k \in DOMAIN merchant_cache' /\ merchant_cache'[k] = merchant_cache[k]

\* C15: after the cache has been loaded, no sequence of normalizations removes
\* a cache key or changes the value of a key that is already present: the key
\* set only grows, and in particular an entry seeded from a user-edited output
\* file is never overwritten by model or pattern output during the run.
C15_CacheOnlyGrows == [][EntriesKept]_vars

\* the second of two normalizations on a cache seeded with a user's entry:
\* the seeded name itself was normalized with the model answering, another
\* name was stored by this process, and the seeded entry is as it was
C15_Witness ==
    /\ Normalized /\ calls = 2 /\ last.hit
    /\ last.raw = <<"W","A","L","M","A","R","T"," ","#","4","3","5","2">> /\ llm_available /\ last.svc = Service(Answering, Answering)
    /\ DOMAIN last.before = {<<"W","A","L","M","A","R","T"," ","#","4","3","5","2">>, <<"W","L"," ","*","S","T","E","A","M"," ","P","U","R","C","H","A","S","E">>}
    /\ merchant_cache[<<"W","A","L","M","A","R","T"," ","#","4","3","5","2">>] = <<"W","a","l","l","y"," ","W","o","r","l","d">>

\* the candidates that survive response cleaning, with the index of their prompt
Surviving ==
    SelectSeq([k \in 1..3 |-> [name |-> Candidate(last.script[k], last.merchant), idx |-> k - 1]],
              LAMBDA c : c.name # NoneStr /\ c.name # <<>>)
\* confidence plus quality adjustments
ScoreOf(c) == CombinedScore(c.name, CalculateConfidence(c.name, last.merchant, c.idx))
AllAgree(cs) == \A j, k \in DOMAIN cs : Lower(cs[j].name) = Lower(cs[k].name)
\* k is the earliest candidate with the maximum score
EarliestBest(cs, k) ==
    /\ \A j \in DOMAIN cs : ScoreOf(cs[j]) <= ScoreOf(cs[k])
    /\ \A j \in 1..(k - 1) : ScoreOf(cs[j]) < ScoreOf(cs[k])
Selected(cs, name) ==
    IF cs = <<>> THEN name = last.merchant
    ELSE IF Len(cs) = 1 \/ AllAgree(cs) THEN name = cs[1].name
    ELSE \E k \in DOMAIN cs : EarliestBest(cs, k) /\ name = cs[k].name
ModelAsked == last.op = "llm_clean" /\ llm_available

\* C21: candidate selection always returns one of the surviving model
\* candidates: the first candidate when all candidates are equal ignoring
\* case; otherwise the candidate with the maximum combined score (confidence
\* plus quality adjustments), the earliest such candidate on a tie; with
\* exactly one surviving candidate llm_clean_merchant_name returns it without
\* voting, and with none it returns its input unchanged.
C21_CandidateSelection == ModelAsked => Selected(Surviving, last.name)

\* three candidates, the second and the third with the same highest score: the
\* second is returned
C21_Witness ==
    /\ ModelAsked /\ last.script = Tied /\ Len(Surviving) = 3
    /\ ScoreOf(Surviving[1]) < ScoreOf(Surviving[2]) /\ ScoreOf(Surviving[2]) = ScoreOf(Surviving[3])
    /\ last.name = <<"S","t","e","a","m"," ","G","a","m","e","s">>
\* candidates that differ in case only: the first is returned
C21_AgreeingCandidates ==
    /\ ModelAsked /\ last.script = SameButCase /\ last.name = <<"w","a","l","m","a","r","t">>
\* one answer out of three calls is returned as it is
C21_SingleCandidate == ModelAsked /\ Len(Surviving) = 1 /\ last.name = Surviving[1].name

\* the name a model call returned when it is usable: non-empty, not the name
\* that was sent and of 3 characters or more
AnswerOr(answer, sent) == IF answer # <<>> /\ answer # sent /\ Len(answer) >= 3 THEN answer ELSE NoneStr
\* the answer of the model in Phase 2 of _clean_merchant_name for the call that
\* last records, NoneStr when Phase 1 returned, the model was not asked or its
\* answer was not usable (1452-1457)
Phase1Answer ==
    LET p == PatternPhase(last.raw)
    IN  IF Len(last.raw) < 3 \/ p.ret \/ ~llm_available \/ Len(p.name) <= 3 THEN NoneStr
        ELSE AnswerOr(LlmCleanMerchantName(p.name, last.svc.s1).name, p.name)
\* the answer of the context-aware refinement (1290-1292)
RefinementAnswer ==
    LET p1 == CleanMerchantName(last.raw, llm_available, last.svc.s1).name
    IN  IF Len(last.raw) < 3 \/ ~llm_available \/ Len(p1) <= 3 THEN NoneStr
        ELSE AnswerOr(LlmCleanMerchantName(p1, last.svc.s2).name, p1)
ModelAnswers == {Phase1Answer, RefinementAnswer} \ {NoneStr}
\* the call was answered by the phases, and the name it returned is an answer
\* of the model or the post-normalized form of one
FromModel ==
    /\ Normalized /\ ~last.hit
    /\ last.name \in ModelAnswers \cup {NormalizeLlmOutput(c) : c \in ModelAnswers}
PostNormalized(name) == name \in {NormalizeLlmOutput(c) : c \in ModelAnswers}
\* C30: a name returned by _clean_merchant_name_with_context, and written to
\* the cache, that originates from a model response has passed
\* _normalize_llm_output: no raw model candidate is returned or cached.
C30_ModelNamePostNormalized ==
    FromModel =>
        /\ PostNormalized(last.name)
        /\ CacheKey(last.raw) \in DOMAIN merchant_cache => PostNormalized(merchant_cache[CacheKey(last.raw)])
\* what does hold: an answer of the refinement that is used is post-normalized
C30_RefinementPostNormalized ==
    (FromModel /\ RefinementAnswer # NoneStr /\ Len(NormalizeLlmOutput(RefinementAnswer)) >= 3)
        => last.name = NormalizeLlmOutput(RefinementAnswer)
\* Phase 2 answered, the refinement did not: the answer of Phase 2 is returned
\* and cached as the model gave it, though post-normalization would change it
C30_RawAnswerReturned ==
    /\ FromModel /\ RefinementAnswer = NoneStr
    /\ last.name = Phase1Answer /\ NormalizeLlmOutput(last.name) # last.name
    /\ merchant_cache[CacheKey(last.raw)] = last.name
(***************************************************************************)
(* The construction of the merchant cache in __init__.                     *)
(***************************************************************************)
CacheFiles ==
    {Missing, Unreadable, Entries(<<>>),
     Entries((<<"W","A","L","M","A","R","T">> :> <<"W","a","l","-","M","a","r","t"," ","S","t","o","r","e","s">>) @@ (<<"S","T","E","A","M">> :> <<"S","t","e","a","m">>)),
     Entries((<<"W","A","L","M","A","R","T">> :> <<"W","a","l","m","a","r","t">>) @@ (<<"A","L","D","I">> :> <<"A","l","d","i"," ","F","o","o","d","s">>))}
\* the Place values the output files can hold
PlaceValues == {<<"W","a","l","m","a","r","t">>, <<"W","A","L","M","A","R","T">>, <<" ","W","a","l">>, <<"B","P">>, <<"A","l","d","i">>}
\* the most rows of one output file and the most output files
MaxRows == 2
MaxFiles == 2
PlaceColumn(c) == [kind |-> "places", column |-> c]
NoPlaceColumn == [kind |-> "no column"]
OutputFiles ==
    {Unreadable, NoPlaceColumn} \cup {PlaceColumn(c) : c \in UNION {[1..n -> PlaceValues] : n \in 0..MaxRows}}
StatementDirs ==
    {Missing} \cup {[kind |-> "files", files |-> f] : f \in UNION {[1..n -> OutputFiles] : n \in 0..MaxFiles}}

\* __init__ after line 80: the cache is empty, merchant_cache.json and the
\* output files are as found on disk
InitCache ==
    /\ merchant_cache = <<>>
    /\ llm_available = FALSE
    /\ pdf_converter = FALSE /\ text_extractor = FALSE
    /\ NoLoop
    /\ calls = 0
    /\ cache_file \in CacheFiles /\ runs = NotRunning
    /\ \E statements \in StatementDirs : last = [op |-> "files", statements |-> statements]

ConstructReturns(r) ==
    /\ merchant_cache' = r.cache
    /\ last' = [op |-> "construct", statements |-> last.statements, frequency |-> r.frequency]
\* lines 81-82 of __init__
ConstructCache ==
    /\ last.op = "files"
    /\ ConstructReturns(LoadUserCorrectionsFromCsvs(LoadMerchantCache(merchant_cache, cache_file),
                                                    last.statements))
    /\ Called
    /\ DiskUnchanged
    /\ UNCHANGED <<llm_available, pdf_converter, text_extractor>>
    /\ LoopUnchanged

NextCache == ConstructCache
SpecCache == InitCache /\ [][NextCache]_vars

Constructed == last.op = "construct"
\* what merchant_cache.json held, {} when it is missing or unreadable
FileEntries == IF cache_file.kind = "entries" THEN cache_file.entries ELSE <<>>
\* the Place values of length >= 3 in the Place columns that were read
Harvested ==
    IF last.statements.kind = "missing" THEN {}
    ELSE {p \in PlaceValues :
            /\ Len(p) >= 3
            /\ \E f \in DOMAIN last.statements.files :
                  /\ last.statements.files[f].kind = "places"
                  /\ \E row \in DOMAIN last.statements.files[f].column :
                         last.statements.files[f].column[row] = p}
HarvestedFor(key) == {p \in Harvested : CacheKey(p) = key}
HarvestedKeys == {CacheKey(p) : p \in Harvested}

InitRuns ==
    /\ merchant_cache = <<>>
    /\ llm_available = FALSE
    /\ pdf_converter = FALSE /\ text_extractor = FALSE
    /\ NoLoop
    /\ calls = 0
    /\ last = Idle
    /\ cache_file \in CacheFiles /\ runs = NotRunning

\* the names the documents of the processes hold
RunNames == {<<"W","A","L","M","A","R","T"," ","#","4","3","5","2">>, <<"W","L"," ","*","S","T","E","A","M"," ","P","U","R","C","H","A","S","E">>}
RunUnchanged ==
    UNCHANGED <<merchant_cache, llm_available, pdf_converter, text_extractor, lines, statement_year,
                i, in_transaction_section, transactions, calls>>
Others(r) == Runs \ {r}
Writing(r) == runs[r].pc = "writing"

\* __init__ lines 80-82 in process r; no output files under statements/
RunStart(r) ==
    /\ runs[r].pc = "not started"
    /\ runs' = [runs EXCEPT ![r].pc = "parsing",
                            ![r].found = cache_file,
                            ![r].merchant_cache =
                                LoadUserCorrectionsFromCsvs(LoadMerchantCache(<<>>, cache_file), Missing).cache]
    /\ last' = [op |-> "start", run |-> r]
    /\ UNCHANGED cache_file
    /\ RunUnchanged

\* one call of _clean_merchant_name_with_context while process r parses its
\* document; the model service is not running
RunNormalize(r) ==
    /\ runs[r].pc = "parsing"
    /\ \E name \in RunNames :
          /\ runs' = [runs EXCEPT ![r].merchant_cache =
                         CleanMerchantNameWithContext(runs[r].merchant_cache, FALSE, name,
                                                      Unreachable, Unreachable).cache]
          /\ last' = [op |-> "normalize", run |-> r, name |-> name]
    /\ UNCHANGED cache_file
    /\ RunUnchanged

\* parse_pdf line 1828 with an empty cache: nothing is saved
RunReturn(r) ==
    /\ runs[r].pc = "parsing"
    /\ runs[r].merchant_cache = <<>>
    /\ runs' = [runs EXCEPT ![r].pc = "done"]
    /\ last' = [op |-> "return", run |-> r]
    /\ UNCHANGED cache_file
    /\ RunUnchanged

\* _save_merchant_cache line 135: open(cache_file, 'w') empties the file
RunSaveOpen(r) ==
    /\ runs[r].pc = "parsing"
    /\ runs[r].merchant_cache # <<>>
    /\ cache_file' = Unreadable
    /\ runs' = [s \in Runs |->
                   IF s = r THEN [runs[r] EXCEPT !.pc = "writing",
                                                 !.overlapped = \E o \in Others(r) : Writing(o)]
                   ELSE IF Writing(s) THEN [runs[s] EXCEPT !.overlapped = TRUE]
                   ELSE runs[s]]
    /\ last' = [op |-> "open", run |-> r]
    /\ RunUnchanged

\* what the file holds once process r has written and closed it: its cache,
\* or bytes of two writers when another process wrote through its own handle
Dumped(r) == {Entries(runs[r].merchant_cache)} \cup (IF runs[r].overlapped THEN {Unreadable} ELSE {})
\* _save_merchant_cache lines 136-137: json.dump and the close of the file
RunSaveDump(r) ==
    /\ Writing(r)
    /\ cache_file' \in Dumped(r)
    /\ runs' = [runs EXCEPT ![r].pc = "done", ![r].written = Entries(runs[r].merchant_cache)]
    /\ last' = [op |-> "dump", run |-> r]
    /\ RunUnchanged

NextRuns ==
    \E r \in Runs : RunStart(r) \/ RunNormalize(r) \/ RunReturn(r) \/ RunSaveOpen(r) \/ RunSaveDump(r)
SpecRuns == InitRuns /\ [][NextRuns]_vars

Done(r) == runs[r].pc = "done"
KeysOf(file) == IF file.kind = "entries" THEN DOMAIN file.entries ELSE {}
Alone(r) == \A o \in Others(r) : runs[o].pc = "not started"
\* the file after the only process that ran: untouched when its cache was
\* empty, else a dict with every key the file had at load
KeptOnDisk(r) ==
    IF runs[r].merchant_cache = <<>> THEN cache_file = runs[r].found
    ELSE /\ cache_file = runs[r].written
         /\ KeysOf(runs[r].found) \subseteq KeysOf(cache_file)
\* C23: a process hands to json.dump every key it found in the file at load,
\* and when it is the only process that ran, the file it leaves holds every
\* key the file held at load
C23_SingleRunKeepsKeys ==
    \A r \in Runs :
        Done(r) => /\ runs[r].merchant_cache # <<>> => KeysOf(runs[r].found) \subseteq KeysOf(runs[r].written)
                   /\ Alone(r) => KeptOnDisk(r)
\* a lost update: both processes wrote their caches one after the other, and
\* an entry the first wrote is not in the file
C23_Witness ==
    /\ \A r \in Runs : Done(r) /\ ~runs[r].overlapped /\ runs[r].written # Missing
    /\ cache_file.kind = "entries"
    /\ \E r \in Runs : ~(KeysOf(runs[r].written) \subseteq KeysOf(cache_file))
\* one process alone, with entries found at load and a name added since
C23_SingleRunWitness ==
    \E r \in Runs : /\ Done(r) /\ Alone(r) /\ KeysOf(runs[r].found) # {}
                    /\ KeysOf(cache_file) # KeysOf(runs[r].found)
(***************************************************************************)
(* parse_transactions, one iteration of its loop at a time.                *)
(***************************************************************************)
WalmartLine == <<"0","1","/","1","5","/","2","0","2","5"," ","W","A","L","M","A","R","T"," ","#","4","3","5","2"," ","$","4","5",".","2","3">>
LinePool ==
    {WalmartLine, <<"P","A","G","E"," ","2"," ","O","F"," ","3">>, <<"T","R","A","N","S","A","C","T","I","O","N","S">>, <<"B","E","G","I","N","N","I","N","G"," ","B","A","L","A","N","C","E"," ","$","5",".","0","0">>, <<"R","E","F","E","R","E","N","C","E">>,
     <<"F","A","R","G","O"," ","N","D">>, <<"T","O","T","A","L"," ","D","E","B","I","T","S">>, <<"0","1","/","1","6","/","2","0","2","5"," ","T","A","R","G","E","T"," ","T","-","1","2","3","4"," ","$","1","2",".","0","0"," ","$","8","8",".","0","0">>}
\* the longest text, in lines
MaxLines == 3
\* how many texts one process parses
MaxTexts == 1
Texts == UNION {[1..n -> LinePool] : n \in 1..MaxLines}

Parsing == last.op = "parsing"
AtLine == Parsing /\ i <= Len(lines)
Branch == LineBranch(lines[i], in_transaction_section)
\* while the model service is unavailable nothing answers
ServicesNow == IF llm_available THEN Services ELSE {Service(Unreachable, Unreachable)}
ParseUnchanged ==
    UNCHANGED <<llm_available, pdf_converter, text_extractor, lines, statement_year, calls, last,
                cache_file, runs>>

\* lines 1487-1495: the call of parse_transactions(text) up to the loop
ParseStart ==
    /\ ~Parsing /\ calls < MaxTexts
    /\ \E text \in Texts :
           /\ lines' = text
           /\ statement_year' = ExtractStatementYear(text)
    /\ i' = 1 /\ in_transaction_section' = FALSE /\ transactions' = <<>>
    /\ last' = [op |-> "parsing", before |-> merchant_cache]
    /\ Called
    /\ DiskUnchanged
    /\ ObjectUnchanged

\* lines 1502-1541: an iteration that skips the line; a marker sets or clears
\* the section flag
Skips(branch) ==
    /\ AtLine /\ Branch = branch
    /\ i' = i + 1
    /\ UNCHANGED <<merchant_cache, transactions>>
    /\ ParseUnchanged
SectionStart == Skips("start") /\ in_transaction_section' = TRUE
SectionEnd == Skips("end") /\ in_transaction_section' = FALSE
SkipSummary == Skips("summary") /\ UNCHANGED in_transaction_section
SkipHeader == Skips("header") /\ UNCHANGED in_transaction_section
SkipOutside == Skips("outside") /\ UNCHANGED in_transaction_section

BlockParsed(st) ==
    /\ i' = st.i
    /\ transactions' = st.transactions
    /\ merchant_cache' = st.cache
\* lines 1544-1548: an iteration that parses the block at the cursor
ParseBlock ==
    /\ AtLine /\ Branch = "block"
    /\ \E svc \in ServicesNow :
           BlockParsed(BlockIteration(lines, LoopState(i, in_transaction_section, transactions, merchant_cache, 0),
                                      statement_year, llm_available, svc))
    /\ UNCHANGED in_transaction_section
    /\ ParseUnchanged

\* line 1550: the loop is over, the list is returned and the locals are gone
ParseReturn ==
    /\ Parsing /\ i > Len(lines)
    /\ last' = [op |-> "parse_transactions", text |-> lines, transactions |-> transactions,
                before |-> last.before]
    /\ lines' = <<>> /\ statement_year' = 0 /\ i' = 1 /\ in_transaction_section' = FALSE /\ transactions' = <<>>
    /\ UNCHANGED calls
    /\ DiskUnchanged
    /\ ObjectUnchanged

NextParse ==
    \/ ParseStart \/ SectionStart \/ SectionEnd \/ SkipSummary \/ SkipHeader \/ SkipOutside
    \/ ParseBlock \/ ParseReturn
\* the model service is unavailable and the cache is empty
InitParse == Init /\ ~llm_available /\ merchant_cache = <<>>
SpecParse == InitParse /\ [][NextParse]_vars

Parsed == last.op = "parse_transactions"
Occurrences(text, line) == Cardinality({k \in DOMAIN text : Strip(text[k]) = line})
IsWalmartTransaction(t) ==
    /\ Get(t, "Transaction Date", <<>>) = <<"0","1","/","1","5","/","2","0","2","5">>
    /\ Contains(Get(t, "Place", <<>>), <<"W","a","l","m","a","r","t">>)
    /\ Get(t, "Amount", NoneAmount) = 4523

\* C2: with the model service unavailable and no cache entry involved,
\* parse_transactions on a text that contains the line
\* "01/15/2025 WALMART #4352 $45.23" emits exactly one transaction for it, with
\* Transaction Date 01/15/2025, a Place containing "Walmart" and Amount 45.23.
C2_OneTransactionPerLine ==
    (Parsed /\ Occurrences(last.text, WalmartLine) = 1)
        => Count(last.transactions, IsWalmartTransaction) = 1

\* the line alone is parsed as the claim says
C2_LineAlone ==
    (Parsed /\ last.text = <<WalmartLine>>)
        => Len(last.transactions) = 1 /\ IsWalmartTransaction(last.transactions[1])
C2_LineAloneParsed == Parsed /\ last.text = <<WalmartLine>> /\ Len(last.transactions) = 1
(***************************************************************************)
(* parse_transaction_block and the cursor of parse_transactions on texts   *)
(* of dated lines, description lines, amounts and empty lines.             *)
(***************************************************************************)
DateAmountLine == <<"0","1","/","1","6","/","2","0","2","5"," ","$","1","2",".","0","0">>
FractionLine == <<"2","4","/","7"," ","F","I","T","N","E","S","S">>
BlockLinePool ==
    {<<"T","R","A","N","S","A","C","T","I","O","N","S">>, <<"C","O","F","F","E","E"," ","S","H","O","P">>, FractionLine, DateAmountLine, <<>>, <<"$","5",".","0","0">>,
     <<"0","1","/","1","7","/","2","0","2","5"," ","C","O","F","F","E","E">>}
\* the longest such text, in lines
MaxBlockLines == 4
BlockTexts == UNION {[1..n -> BlockLinePool] : n \in 1..MaxBlockLines}

\* lines 1487-1495 on one of these texts
ParseStartBlocks ==
    /\ ~Parsing /\ calls < MaxTexts
    /\ \E text \in BlockTexts :
           /\ lines' = text
           /\ statement_year' = ExtractStatementYear(text)
    /\ i' = 1 /\ in_transaction_section' = FALSE /\ transactions' = <<>>
    /\ last' = [op |-> "parsing", before |-> merchant_cache]
    /\ Called
    /\ DiskUnchanged
    /\ ObjectUnchanged

BlockCallReturns(text, start_idx, blk, b) ==
    /\ merchant_cache' = b.cache
    /\ last' = [op |-> "parse_transaction_block", lines |-> text, start_idx |-> start_idx,
                consumed |-> blk.consumed, returned |-> b.ok]
BlockCallBuilds(text, start_idx, blk) ==
    BlockCallReturns(text, start_idx, blk,
                     BuildBlock(blk, merchant_cache, llm_available, Service(Unreachable, Unreachable)))
\* parse_transaction_block(lines, start_idx) at an index inside the text;
\* start_idx counts from 1
BlockCall ==
    /\ ~Parsing /\ calls < MaxTexts
    /\ \E text \in BlockTexts : \E start_idx \in DOMAIN text :
           BlockCallBuilds(text, start_idx, ParseTransactionBlock(text, start_idx, ClockYear))
    /\ Called
    /\ DiskUnchanged
    /\ UNCHANGED <<llm_available, pdf_converter, text_extractor>>
    /\ LoopUnchanged

NextBlocks ==
    \/ ParseStartBlocks \/ BlockCall
    \/ SectionStart \/ SkipOutside \/ ParseBlock \/ ParseReturn
SpecBlocks == InitParse /\ [][NextBlocks]_vars

BlockCalled == last.op = "parse_transaction_block"
\* the number of lines reported is between 1 and 3 and not more than the lines
\* from start_idx to the end of the text
ReportInRange ==
    BlockCalled =>
        /\ last.consumed \in 1..3
        /\ last.start_idx + last.consumed - 1 <= Len(last.lines)
\* an iteration of the loop moves the cursor forward, by at most 3 lines and
\* not beyond the line after the last: Len(lines) + 1 - i falls with every
\* iteration and is never negative, so the loop ends after at most Len(lines)
\* iterations
CursorAdvances == AtLine => (i' > i /\ i' <= i + 3 /\ i' <= Len(lines) + 1)

\* C19: parse_transactions terminates on every finite text: each loop iteration
\* advances the line cursor by at least 1; parse_transaction_block called at an
\* index inside the text always reports between 1 and 3 lines consumed, also
\* when it rejects the block and returns no transaction, and never reports more
\* lines than remain from the start index to the end of the text.
C19_CursorAdvancesWithinText ==
    /\ [](ReportInRange /\ (Parsing => i <= Len(lines) + 1))
    /\ [][CursorAdvances]_vars

\* a description line, the date and the amount, and a line of additional text
\* that is the last line of the text: three lines reported
C19_Witness ==
    /\ BlockCalled /\ last.consumed = 3 /\ last.returned
    /\ last.start_idx + 2 = Len(last.lines)
\* a rejected block at the last line of the text reports one line
C19_RejectedAtEnd ==
    /\ BlockCalled /\ ~last.returned /\ last.consumed = 1
    /\ last.start_idx = Len(last.lines) /\ last.lines[last.start_idx] = <<"0","1","/","1","7","/","2","0","2","5"," ","C","O","F","F","E","E">>

\* the cursor is outside a transaction section, at a line that does not begin
\* with MM/DD/YYYY, MM/DD/YY or MM-DD
OutsideUndated == AtLine /\ ~in_transaction_section /\ ~HasDate(Strip(lines[i]))
SkippedByOne == i' = i + 1 /\ transactions' = transactions

\* C20: while the parser is outside a transaction section, a line that does not
\* begin with a date in one of the recognised formats (MM/DD/YYYY, MM/DD/YY,
\* MM-DD) is skipped with the cursor advanced by exactly one: no block parse is
\* attempted at that line, so no description-first block (description line
\* followed by a date+amounts line) can start outside a section.
C20_UndatedLineSkipped == [][OutsideUndated => SkippedByOne]_vars

\* what the code does: outside a section the line is skipped when it does not
\* begin with one or two digits, a slash or a dash, and a digit (line 1539)
C20_SkippedUnlessDigitPrefix ==
    [][(AtLine /\ ~in_transaction_section /\ ~Matches(DateStart, Strip(lines[i]), FALSE)) => SkippedByOne]_vars
\* a text without a section marker: "24/7 FITNESS" begins with no date, the block
\* parser takes it as the description of the dated line after it
C20_BlockStartsOutside ==
    /\ Parsed /\ last.text = <<FractionLine, DateAmountLine>>
    /\ Len(last.transactions) = 1
    /\ last.transactions[1]["Place_Original"] = FractionLine
    /\ last.transactions[1]["Transaction Date"] = <<"0","1","/","1","6","/","2","0","2","5">>
(***************************************************************************)
(* _build_transaction on the components of one block.                      *)
(***************************************************************************)
\* the most amounts on one line
MaxAmounts == 4
AmountValues == {0, 500, 1999}
AmountLists == UNION {[1..n -> AmountValues] : n \in 0..MaxAmounts}
Descriptions == {<<"W","A","L","M","A","R","T"," ","#","4","3","5","2">>, <<"P","A","G","E"," ","2"," ","O","F"," ","3">>, <<"T","a","r","g","e","t">>}

\* the block parser holds a date, a description and the amounts of a line
InitBuild ==
    /\ merchant_cache = <<>> /\ llm_available = FALSE
    /\ pdf_converter = FALSE /\ text_extractor = FALSE
    /\ NoLoop
    /\ cache_file = Missing /\ runs = NotRunning
    /\ calls = 0
    /\ \E description \in Descriptions, amounts \in AmountLists :
           last = [op |-> "components", date |-> <<"0","1","/","1","5","/","2","0","2","5">>, description |-> description,
                   amounts |-> amounts]

BuildReturns(b) ==
    /\ merchant_cache' = b.cache
    /\ last' = [op |-> "build_transaction", date |-> last.date, description |-> last.description,
                amounts |-> last.amounts, returned |-> b.ok, trans |-> b.trans]
\* _build_transaction(date, description, amounts) with the model unavailable
BuildCall ==
    /\ last.op = "components"
    /\ BuildReturns(BuildTransaction(last.date, last.description, last.amounts, merchant_cache,
                                     llm_available, Service(Unreachable, Unreachable)))
    /\ Called
    /\ DiskUnchanged
    /\ UNCHANGED <<llm_available, pdf_converter, text_extractor>>
    /\ LoopUnchanged

NextBuild == BuildCall
SpecBuild == InitBuild /\ [][NextBuild]_vars

Built == last.op = "build_transaction" /\ last.returned
\* the fields of the transaction other than the date and the descriptions
AmountKeysSet == (DOMAIN last.trans) \ {"Transaction Date", "Place", "Place_Original"}
OrEmpty(amount) == IF amount > 0 THEN amount ELSE NoneAmount

\* C22: _build_transaction maps the extracted amounts by their count: exactly 1
\* gives Amount; exactly 2 gives Amount (first) and Balance (second); 3 or more
\* gives Debits = first if it is > 0 (otherwise empty), Credits = second if it
\* is > 0 (otherwise empty) and Balance = third, with amounts beyond the third
\* ignored; no other amount field is set.
C22_AmountsByCount ==
    Built =>
        /\ Len(last.amounts) = 0 => AmountKeysSet = {}
        /\ Len(last.amounts) = 1 =>
               AmountKeysSet = {"Amount"} /\ last.trans["Amount"] = last.amounts[1]
        /\ Len(last.amounts) = 2 =>
               /\ AmountKeysSet = {"Amount", "Balance"}
               /\ last.trans["Amount"] = last.amounts[1] /\ last.trans["Balance"] = last.amounts[2]
        /\ Len(last.amounts) >= 3 =>
               /\ AmountKeysSet = {"Debits", "Credits", "Balance"}
               /\ last.trans["Debits"] = OrEmpty(last.amounts[1])
               /\ last.trans["Credits"] = OrEmpty(last.amounts[2])
               /\ last.trans["Balance"] = last.amounts[3]

\* four amounts, the first 0.00: Debits is empty, Credits the second, Balance
\* the third, and the fourth is in no field
C22_Witness ==
    /\ Built /\ last.amounts = <<0, 500, 1999, 500>>
    /\ last.trans["Debits"] = NoneAmount /\ last.trans["Credits"] = 500 /\ last.trans["Balance"] = 1999
(***************************************************************************)
(* parse_transactions on texts with section markers, dated lines,          *)
(* description lines and a date the OCR misread.                           *)
(***************************************************************************)
DirectDepositLine == <<"0","1","/","1","4","/","2","0","2","5"," ","D","I","R","E","C","T"," ","D","E","P","O","S","I","T"," ","A","C","M","E"," ","$","5","0","0",".","0","0">>
MisreadLine == <<"4","2","/","2","9","/","2","0","2","5"," ","$","1","2",".","0","0">>
SectionLinePool ==
    {<<"T","R","A","N","S","A","C","T","I","O","N","S">>, <<"T","O","T","A","L"," ","D","E","B","I","T","S">>, <<"R","E","F","E","R","E","N","C","E">>, <<"F","A","R","G","O"," ","N","D">>, FractionLine, WalmartLine,
     DirectDepositLine, MisreadLine}
\* the longest such text, in lines
MaxSectionLines == 3
SectionTexts == UNION {[1..n -> SectionLinePool] : n \in 1..MaxSectionLines}

\* lines 1487-1495 on one of these texts
ParseStartSections ==
    /\ ~Parsing /\ calls < MaxTexts
    /\ \E text \in SectionTexts :
           /\ lines' = text
           /\ statement_year' = ExtractStatementYear(text)
    /\ i' = 1 /\ in_transaction_section' = FALSE /\ transactions' = <<>>
    /\ last' = [op |-> "parsing", before |-> merchant_cache]
    /\ Called
    /\ DiskUnchanged
    /\ ObjectUnchanged

NextSections ==
    \/ ParseStartSections
    \/ SectionStart \/ SectionEnd \/ SkipHeader \/ SkipOutside \/ ParseBlock \/ ParseReturn
SpecSections == InitParse /\ [][NextSections]_vars

\* what parse_transaction_block and _build_transaction make of the line when
\* it is the only line of a text
OnItsOwn(line) ==
    BuildBlock(ParseTransactionBlock(<<line>>, 1, ClockYear), <<>>, FALSE, Service(Unreachable, Unreachable))
\* the line begins with a recognised date and carries an amount and a
\* description that _build_transaction accepts
Qualifies(line) == HasDate(Strip(line)) /\ OnItsOwn(line).ok
DateOfLine(line) == OnItsOwn(line).trans["Transaction Date"]
EmittedWithDate(date) == \E j \in DOMAIN last.transactions : last.transactions[j]["Transaction Date"] = date

\* C26: every line that begins with a recognised date and carries an amount
\* and a description of at least 3 characters with a letter that matches no
\* boilerplate pattern produces a transaction with that date in the output of
\* parse_transactions, whatever the section state and the neighbouring lines.
C26_DatedLineEmitted ==
    Parsed => \A k \in DOMAIN last.text : Qualifies(last.text[k]) => EmittedWithDate(DateOfLine(last.text[k]))
\* what does hold: such a line that is the whole text is emitted
C26_OnlyLineEmitted ==
    (Parsed /\ Len(last.text) = 1 /\ Qualifies(last.text[1]))
        => Len(last.transactions) = 1 /\ EmittedWithDate(DateOfLine(last.text[1]))
\* inside a section the deposit line is taken for an end marker
C26_DepositDropped ==
    /\ Parsed /\ last.text = <<<<"T","R","A","N","S","A","C","T","I","O","N","S">>, DirectDepositLine>>
    /\ Qualifies(DirectDepositLine) /\ last.transactions = <<>>
\* the header line after the Walmart line is taken into its description, which
\* _build_transaction then rejects
C26_HeaderGlued ==
    /\ Parsed /\ last.text = <<WalmartLine, <<"R","E","F","E","R","E","N","C","E">>>>
    /\ Qualifies(WalmartLine) /\ last.transactions = <<>>

\* the line is one the loop takes for an end marker when it examines it inside
\* a section
EndMarkerLine(line) == HasMarker(line, EndMarkers) /\ ~HasMarker(line, StartMarkers)
\* the iteration moves the cursor past an end-marker line while the parser is
\* inside a section
PassesEndMarker ==
    /\ AtLine /\ in_transaction_section
    /\ \E j \in i..(i' - 1) : j \in DOMAIN lines /\ EndMarkerLine(lines[j])
\* the iteration parses a block that starts with a description line
DescriptionFirstParsed ==
    /\ AtLine /\ Branch = "block" /\ ~HasDate(Strip(lines[i]))
    /\ Len(transactions') > Len(transactions)
\* C27: when an end-marker line occurs while the parser is inside a
\* transaction section, the parser is outside the section once the cursor has
\* passed that line, and it stays outside until the next start-marker line, so
\* that no description-first block is parsed outside a section.
C27_EndMarkerLeavesSection ==
    /\ [][PassesEndMarker => ~in_transaction_section']_vars
    /\ [][(Parsing /\ ~in_transaction_section /\ in_transaction_section') => HasMarker(lines[i], StartMarkers)]_vars
    /\ [][DescriptionFirstParsed => in_transaction_section]_vars
\* what does hold: an end-marker line at the cursor inside a section clears
\* the flag, and only a start-marker line at the cursor sets it
C27_FlagFollowsCursorLine ==
    /\ [][(AtLine /\ in_transaction_section /\ EndMarkerLine(lines[i]))
              => (~in_transaction_section' /\ i' = i + 1 /\ transactions' = transactions)]_vars
    /\ [][(Parsing /\ ~in_transaction_section /\ in_transaction_section') => HasMarker(lines[i], StartMarkers)]_vars
\* the end marker after the Walmart line is taken into the Walmart block: the
\* cursor is past it and the parser is still inside the section
C27_MarkerSwallowed ==
    /\ Parsing /\ lines = <<<<"T","R","A","N","S","A","C","T","I","O","N","S">>, WalmartLine, <<"T","O","T","A","L"," ","D","E","B","I","T","S">>>>
    /\ i = 4 /\ in_transaction_section /\ Len(transactions) = 1
\* after the end marker, outside the section, a description-first block
C27_BlockAfterEnd ==
    /\ Parsed /\ last.text = <<<<"T","O","T","A","L"," ","D","E","B","I","T","S">>, FractionLine, MisreadLine>>
    /\ Len(last.transactions) = 1 /\ last.transactions[1]["Place_Original"] = FractionLine

\* the line holds description text only: no leading date and no amount
DescriptionLine(line) ==
    /\ Strip(line) # <<>> /\ AnyAlpha(Strip(line))
    /\ ~HasDate(Strip(line)) /\ ExtractAmounts(Strip(line)) = <<>>
\* the emitted transactions whose original description holds the text of line k
UsedBy(k) ==
    {j \in DOMAIN last.transactions : Contains(last.transactions[j]["Place_Original"], Strip(last.text[k]))}
\* C28: no input line contributes description text to more than one emitted
\* transaction: a line consumed as the continuation line or the description
\* line of one block is never the borrowed previous-line description of a
\* later block.
C28_LineUsedOnce ==
    Parsed =>
        \A k \in DOMAIN last.text :
            (DescriptionLine(last.text[k]) /\ Occurrences(last.text, Strip(last.text[k])) = 1)
                => Cardinality(UsedBy(k)) <= 1
\* what does hold: a line is in the descriptions of two transactions only when
\* the line after it begins with a date and has no description of its own
C28_TwiceOnlyWhenBorrowed ==
    Parsed =>
        \A k \in DOMAIN last.text :
            (DescriptionLine(last.text[k]) /\ Occurrences(last.text, Strip(last.text[k])) = 1
             /\ Cardinality(UsedBy(k)) > 1)
                => /\ k + 1 \in DOMAIN last.text /\ HasDate(Strip(last.text[k + 1]))
                   /\ ~OnItsOwn(last.text[k + 1]).ok
\* 'FARGO ND' continues the Walmart line and is borrowed by the dated line
\* after it
C28_ContinuationBorrowed ==
    /\ Parsed /\ last.text = <<WalmartLine, <<"F","A","R","G","O"," ","N","D">>, MisreadLine>>
    /\ Len(last.transactions) = 2
    /\ last.transactions[1]["Place_Original"] = <<"W","A","L","M","A","R","T"," ","#","4","3","5","2"," ","F","A","R","G","O"," ","N","D">>
    /\ last.transactions[2]["Place_Original"] = <<"F","A","R","G","O"," ","N","D">>

\* the month of the date is one the correction rules of _fix_ocr_date_errors
\* name: 13, 14, 40, 41, 42, or two digits, the first above 1, the second at most 2
MonthOf(date) == SplitOn(date, "/")[1]
MappedMonth(date) ==
    /\ IsDigits(MonthOf(date))
    /\ \/ ParseInt(MonthOf(date)) \in {13, 14, 40, 41, 42}
       \/ Len(MonthOf(date)) = 2 /\ ParseInt(<<MonthOf(date)[1]>>) > 1 /\ ParseInt(<<MonthOf(date)[2]>>) <= 2
\* C29: the OCR month correction is applied to the date of every emitted
\* transaction on every parsing path: no transaction in the output of
\* parse_transactions has a month the correction rules map, whether its block
\* started with the date line or with a description line.
C29_NoMappedMonthEmitted ==
    Parsed => \A j \in DOMAIN last.transactions : ~MappedMonth(last.transactions[j]["Transaction Date"])
\* what does hold: a transaction with such a month is made of the misread
\* line and the description line before it, which started its block
C29_OnlyDescriptionFirstUncorrected ==
    Parsed =>
        \A j \in DOMAIN last.transactions :
            MappedMonth(last.transactions[j]["Transaction Date"])
                => \E k \in DOMAIN last.text :
                       /\ k + 1 \in DOMAIN last.text /\ last.text[k + 1] = MisreadLine
                       /\ ~HasDate(Strip(last.text[k]))
                       /\ Contains(last.transactions[j]["Place_Original"], Strip(last.text[k]))
\* the misread date is emitted as read when a description line starts the block
C29_RawMonthEmitted ==
    /\ Parsed /\ last.text = <<<<"T","R","A","N","S","A","C","T","I","O","N","S">>, <<"F","A","R","G","O"," ","N","D">>, MisreadLine>>
    /\ Len(last.transactions) = 1 /\ last.transactions[1]["Transaction Date"] = <<"4","2","/","2","9","/","2","0","2","5">>
\* and corrected when the dated line starts it
C29_DatedPathCorrected ==
    /\ Parsed /\ last.text = <<WalmartLine, <<"F","A","R","G","O"," ","N","D">>, MisreadLine>>
    /\ Len(last.transactions) = 2 /\ last.transactions[2]["Transaction Date"] = <<"1","2","/","2","9","/","2","0","2","5">>
(***************************************************************************)
(* _fix_ocr_date_errors on the date strings the date patterns can match    *)
(* (a month of one or two digits) and on strings that are not dates.       *)
(***************************************************************************)
MaxMonth == 99
Months == {IntStr(m) : m \in 0..MaxMonth} \cup {ZFill(IntStr(m), 2) : m \in 0..9}
DayYears == {<<"2","9","/","2","0","2","5">>, <<"5","/","2","5">>, <<"2","9">>}
Dates ==
    {m \o <<"/">> \o r : m \in Months, r \in DayYears}
    \cup {<<>>, <<"1","2","-","1","6">>, <<"a","b","/","1","2","/","2","0","2","5">>, <<"/","2","9","/","2","0","2","5">>, <<"4"," ","2","/","2","9","/","2","0","2","5">>}

\* the caller holds a date string
InitDates ==
    /\ merchant_cache = <<>> /\ llm_available = FALSE
    /\ pdf_converter = FALSE /\ text_extractor = FALSE
    /\ NoLoop
    /\ cache_file = Missing /\ runs = NotRunning
    /\ calls = 0
    /\ last \in {[op |-> "date", date_str |-> d] : d \in Dates}

\* _fix_ocr_date_errors(date_str)
FixDate ==
    /\ last.op = "date"
    /\ last' = [op |-> "fix_ocr_date_errors", date_str |-> last.date_str,
                result |-> FixOcrDateErrors(last.date_str)]
    /\ Called
    /\ DiskUnchanged
    /\ ObjectUnchanged /\ LoopUnchanged

NextDates == FixDate
SpecDates == InitDates /\ [][NextDates]_vars

DateFixed == last.op = "fix_ocr_date_errors"
HasMonth == DateFixed /\ Contains(last.date_str, <<"/">>) /\ IsDigits(SplitOn(last.date_str, "/")[1])
MonthIn == ParseInt(SplitOn(last.date_str, "/")[1])
MonthOut == SplitOn(last.result, "/")[1]
\* the month the claim's table and digit rule give for a month above 12, as text;
\* the empty string where they give none
Rewritten(month) ==
    IF month \in {42} THEN <<"1","2">>
    ELSE IF month \in {41, 14, 13} THEN <<"1","1">>
    ELSE IF month = 40 THEN <<"1","0">>
    ELSE IF month \div 10 > 1 /\ month % 10 <= 2 THEN <<"1">> \o IntStr(month % 10)
    ELSE <<>>

\* C5: _fix_ocr_date_errors leaves a date whose month is <= 12 unchanged; a
\* month > 12 is rewritten by the table 42->12, 41->11, 40->10, 14->11, 13->11,
\* otherwise to 10 + second digit when the first digit exceeds 1 and the second
\* digit is <= 2, and otherwise the date is left unchanged; the day and year
\* parts are never altered, so "42/29/2025" becomes "12/29/2025".  (A string
\* without a month number is returned as it is.)
C5_MonthCorrection ==
    /\ (DateFixed /\ ~HasMonth) => last.result = last.date_str
    /\ (HasMonth /\ MonthIn <= 12) => last.result = last.date_str
    /\ (HasMonth /\ MonthIn > 12 /\ Rewritten(MonthIn) # <<>>) => MonthOut = Rewritten(MonthIn)
    /\ (HasMonth /\ MonthIn > 12 /\ Rewritten(MonthIn) = <<>>) => last.result = last.date_str
    /\ HasMonth => Tail(SplitOn(last.result, "/")) = Tail(SplitOn(last.date_str, "/"))
    /\ (DateFixed /\ last.date_str = <<"4","2","/","2","9","/","2","0","2","5">>) => last.result = <<"1","2","/","2","9","/","2","0","2","5">>

\* a month the table rewrites although the digit rule would leave it alone
C5_Witness == DateFixed /\ last.date_str = <<"1","4","/","2","9","/","2","0","2","5">> /\ last.result = <<"1","1","/","2","9","/","2","0","2","5">>
(***************************************************************************)
(* validate_transactions on lists of records.                              *)
(***************************************************************************)
Trans(date, place, amounts) == ("Transaction Date" :> date) @@ ("Place" :> place) @@ amounts
GoodRecords ==
    {Trans(<<"0","1","/","1","5","/","2","0","2","5">>, <<"W","a","l","m","a","r","t">>, "Amount" :> 4523),
     Trans(<<"1","/","6","/","2","0","2","5">>, <<"T","a","r","g","e","t">>, ("Debits" :> NoneAmount) @@ ("Credits" :> 500) @@ ("Balance" :> 10000)),
     Trans(<<"0","3","/","0","1","/","2","0","2","5">>, <<"A","l","d","i">>, "Amount" :> 1999)}
BadRecords ==
    {Trans(<<"1","2","/","1","6">>, <<"W","a","l","m","a","r","t">>, "Amount" :> 100),
     Trans(<<"0","3","/","0","2","/","2","0","2","5">>, <<"S","h","e","l","l">>, ("Amount" :> 0) @@ ("Balance" :> 700)),
     Trans(<<"0","3","/","0","3","/","2","0","2","5">>, <<"4","2">>, "Amount" :> 100),
     ("Amount" :> 100)}
\* records whose date the block parser took from a line with a month that
\* _fix_ocr_date_errors leaves as it is (line 1002)
UncorrectedRecords ==
    {Trans(FixOcrDateErrors(<<"1","5","/","2","9","/","2","0","2","5">>), <<"C","o","s","t","c","o">>, "Amount" :> 4523),
     Trans(FixOcrDateErrors(<<"2","3","/","0","5","/","2","0","2","5">>), <<"S","h","e","l","l"," ","O","i","l">>, "Amount" :> 3000)}
\* the longest list of freely chosen records
MaxFree == 3
\* the most copies of a passing record, and of a failing one, in a longer list
MaxGood == 9
MaxBad == 3
Repeat(x, n) == [k \in 1..n |-> x]
RecordLists ==
    UNION {[1..n -> GoodRecords \cup BadRecords \cup UncorrectedRecords] : n \in 0..MaxFree}
    \cup {Repeat(g, a) \o Repeat(b, c) : g \in GoodRecords, b \in BadRecords, a \in 0..MaxGood, c \in 0..MaxBad}
    \cup {<<g, h>> \o Repeat(g, a) \o Repeat(b, c) : g \in GoodRecords, h \in GoodRecords, b \in BadRecords,
                                                    a \in 0..MaxGood, c \in 0..1}

\* the caller holds a list of transactions
InitValidator ==
    /\ merchant_cache = <<>> /\ llm_available = FALSE
    /\ pdf_converter = FALSE /\ text_extractor = FALSE
    /\ NoLoop
    /\ cache_file = Missing /\ runs = NotRunning
    /\ calls = 0
    /\ last \in {[op |-> "list", transactions |-> ts] : ts \in RecordLists}

\* validate_transactions(transactions, method)
Validate ==
    /\ last.op = "list"
    /\ last' = [op |-> "validate_transactions", transactions |-> last.transactions,
                result |-> ValidateTransactions(last.transactions, <<"P","D","F">>)]
    /\ Called
    /\ DiskUnchanged
    /\ ObjectUnchanged /\ LoopUnchanged

NextValidator == Validate
SpecValidator == InitValidator /\ [][NextValidator]_vars

WasValidated == last.op = "validate_transactions"
\* fewer than percent % of the transactions satisfy P
FewerThan(percent, P(_)) == 100 * Count(last.transactions, P) < percent * Len(last.transactions)
Places == {Get(last.transactions[k], "Place", <<>>) : k \in DOMAIN last.transactions}
Deductions ==
    (IF FewerThan(90, HasValidDate) THEN 20 ELSE 0)
    + (IF FewerThan(90, HasValidAmount) THEN 30 ELSE 0)
    + (IF FewerThan(80, HasValidDescription) THEN 30 ELSE 0)
    + (IF Len(last.transactions) < 3 THEN 20 ELSE 0)
    + (IF 100 * Cardinality(Places) < 50 * Len(last.transactions) THEN 10 ELSE 0)
AllPass ==
    /\ Len(last.transactions) >= 3
    /\ \A k \in DOMAIN last.transactions :
           /\ HasValidDate(last.transactions[k]) /\ HasValidAmount(last.transactions[k])
           /\ HasValidDescription(last.transactions[k])
    /\ Cardinality(Places) = Len(last.transactions)

\* C6: validate_transactions returns score 0 and valid = false for an empty
\* list; for a non-empty list the score is 100 minus 20 if fewer than 90% of the
\* entries have a well-formed date, minus 30 if fewer than 90% have a positive
\* amount field, minus 30 if fewer than 80% have a description of >= 3
\* characters containing a letter, minus 20 if there are fewer than 3
\* transactions, minus 10 if the unique-description ratio is below 50%, clamped
\* to 0..100; valid is true iff the reported score is >= 50; a list of >= 3
\* transactions that all pass and have pairwise distinct descriptions scores 100.
C6_ValidatorScore ==
    WasValidated =>
        /\ last.transactions = <<>> => (last.result["score"] = 0 /\ ~last.result["valid"])
        /\ last.transactions # <<>> =>
               last.result["score"] = (IF Deductions > 100 THEN 0 ELSE 100 - Deductions)
        /\ last.result["valid"] <=> last.result["score"] >= 50
        /\ last.result["score"] \in 0..100
        /\ AllPass => last.result["score"] = 100

\* ten transactions of which exactly nine pass every check: 90% is not fewer
\* than 90%, the repeated description costs 10 points
C6_Witness ==
    /\ WasValidated /\ Len(last.transactions) = 10
    /\ Count(last.transactions, HasValidDate) = 9
    /\ last.result["score"] = 90 /\ last.result["valid"]

\* the date has a month above 12
DateParts(t) == SplitOn(t["Transaction Date"], "/")
OutOfRangeMonth(t) ==
    /\ "Transaction Date" \in DOMAIN t
    /\ Len(DateParts(t)) = 3 /\ IsDigits(DateParts(t)[1]) /\ ParseInt(DateParts(t)[1]) > 12
\* the same record with the month 11
WithMonthInRange(t) ==
    [t EXCEPT !["Transaction Date"] = <<"1","1","/">> \o DateParts(t)[2] \o <<"/">> \o DateParts(t)[3]]
InRangeList ==
    [k \in DOMAIN last.transactions |->
        IF OutOfRangeMonth(last.transactions[k]) THEN WithMonthInRange(last.transactions[k])
        ELSE last.transactions[k]]
\* more than 10% of the dates have an out-of-range month
ManyUncorrected == WasValidated /\ 10 * Count(last.transactions, OutOfRangeMonth) > Len(last.transactions)
DateIssue == \E k \in DOMAIN last.result["issues"] : last.result["issues"][k] = "valid dates"

\* C13: a transaction whose month is out of range and has no correction (e.g.
\* month 15 or 23) is counted by validate_transactions as not having a
\* well-formed date, so a list in which more than 10% of the dates are such
\* uncorrected dates receives the date deduction of 20 and a lower score than
\* the same list with in-range months.
C13_UncorrectedDateFlagged ==
    ManyUncorrected =>
        /\ \A k \in DOMAIN last.transactions :
               OutOfRangeMonth(last.transactions[k]) => ~HasValidDate(last.transactions[k])
        /\ DateIssue
        /\ last.result["score"] < ValidateTransactions(InRangeList, <<"P","D","F">>)["score"]

\* what the code does: the date test looks at the shape of the string only, so
\* the list scores what the same list with in-range months scores
C13_MonthNotExamined ==
    WasValidated => last.result["score"] = ValidateTransactions(InRangeList, <<"P","D","F">>)["score"]
\* three transactions, every date with month 15 or 23, score 100
C13_UncorrectedScoresFull ==
    /\ ManyUncorrected /\ Len(last.transactions) = 3
    /\ Count(last.transactions, OutOfRangeMonth) = 3
    /\ last.result["score"] = 100 /\ ~DateIssue
(***************************************************************************)
(* cross_reference_transactions on two extraction lists.                   *)
(***************************************************************************)
Extracted2(date, place, original, amount) ==
    ("Transaction Date" :> date) @@ ("Place" :> place) @@ ("Place_Original" :> original) @@ ("Amount" :> amount)
NoisyWalmart == Extracted2(<<"0","3","/","0","1","/","2","0","2","5">>, <<"W","a","l","-","M","a","r","t"," ","A","s","d","f">>, <<"W","A","L","-","M","A","R","T"," ","A","S","D","F","1","2","3">>, 1999)
CleanWalmart == Extracted2(<<"0","3","/","0","1","/","2","0","2","5">>, <<"W","a","l","m","a","r","t">>, <<"W","a","l","m","a","r","t">>, 1999)
\* the record _build_transaction makes of a line with three amounts the first of
\* which is 0.00 (lines 1190-1194): Debits is None
DepositRecord ==
    ("Transaction Date" :> <<"0","3","/","0","1","/","2","0","2","5">>) @@ ("Place" :> <<"P","a","y","r","o","l","l">>) @@ ("Place_Original" :> <<"P","A","Y","R","O","L","L">>)
    @@ ("Debits" :> NoneAmount) @@ ("Credits" :> 50000) @@ ("Balance" :> 120000)
ExtractedPool ==
    {NoisyWalmart, CleanWalmart, DepositRecord,
     Extracted2(<<"0","3","/","0","1","/","2","0","2","5">>, <<"T","a","r","g","e","t">>, <<"T","A","R","G","E","T">>, 2001),
     Extracted2(<<"1","2","/","3","0","/","2","0","2","4">>, <<"A","l","d","i">>, <<"A","L","D","I">>, 500),
     Extracted2(<<"0","1","/","0","5","/","2","0","2","5">>, <<"S","h","e","l","l">>, <<"S","H","E","L","L">>, 3000)}
\* the longest extraction list
MaxExtracted == 2
\* how many pairs of lists one process reconciles
MaxMerges == 1
ExtractedLists == UNION {[1..n -> ExtractedPool] : n \in 0..MaxExtracted}
MergeServices == IF llm_available THEN {Service(Unreachable, Unreachable), Service(Answering, Answering)}
                 ELSE {Service(Unreachable, Unreachable)}

CrossReferenceReturns(transactions_a, transactions_b, two_cent, r) ==
    /\ merchant_cache' = r.cache
    /\ last' = [op |-> "cross_reference", transactions_a |-> transactions_a, transactions_b |-> transactions_b,
                two_cent |-> two_cent, merged |-> r.merged, selected |-> r.selected, pairs |-> r.pairs,
                raises |-> r.raises]
\* cross_reference_transactions(transactions_a, transactions_b, "PDF", "OCR")
CrossReferenceCall ==
    /\ calls < MaxMerges
    /\ \E transactions_a \in ExtractedLists, transactions_b \in ExtractedLists, two_cent \in BOOLEAN,
          svc \in MergeServices :
           CrossReferenceReturns(transactions_a, transactions_b, two_cent,
                                 CrossReferenceTransactions(transactions_a, transactions_b, <<"P","D","F">>, <<"O","C","R">>,
                                                            merchant_cache, llm_available, svc, two_cent))
    /\ Called
    /\ DiskUnchanged
    /\ UNCHANGED <<llm_available, pdf_converter, text_extractor>>
    /\ LoopUnchanged

NextReconciler == CrossReferenceCall
InitReconciler == Init /\ merchant_cache = <<>>
SpecReconciler == InitReconciler /\ [][NextReconciler]_vars

Reconciled == last.op = "cross_reference" /\ ~last.raises
OnDate(ts, date) == {k \in DOMAIN ts : Get(ts[k], "Transaction Date", <<>>) = date}
Only(ts, t) == Cardinality(OnDate(ts, t["Transaction Date"])) = 1 /\ \E k \in DOMAIN ts : ts[k] = t
\* each list holds one of the two Walmart records and nothing else of that day
WalmartPair ==
    /\ Reconciled
    /\ \/ Only(last.transactions_a, NoisyWalmart) /\ Only(last.transactions_b, CleanWalmart)
       \/ Only(last.transactions_a, CleanWalmart) /\ Only(last.transactions_b, NoisyWalmart)
OneMerged == Cardinality(OnDate(last.merged, <<"0","3","/","0","1","/","2","0","2","5">>)) = 1
\* the original description the merge selected for the transaction of that day
SelectedOriginal(original) ==
    \A k \in OnDate(last.merged, <<"0","3","/","0","1","/","2","0","2","5">>) : Get(last.merged[k], "Place_Original", <<>>) = original

\* C3: given two extraction lists that each contain a transaction dated
\* 03/01/2025 with amount 19.99, whose original descriptions are
\* "WAL-MART ASDF123" and "Walmart", cross_reference_transactions emits exactly
\* one merged transaction for the pair, and the original description it selects
\* for re-cleaning is the cleaner of the two, "Walmart".
C3_CleanerOriginalSelected ==
    WalmartPair => OneMerged /\ SelectedOriginal(<<"W","a","l","m","a","r","t">>)

\* the pair is merged into one transaction, whichever list holds which record
C3_PairMergedOnce == WalmartPair => OneMerged
C3_PairMerged == WalmartPair /\ OneMerged /\ last.transactions_a[1] = NoisyWalmart

\* both lists of the call are non-empty
NonEmptyMerge == last.op = "cross_reference" /\ last.transactions_a # <<>> /\ last.transactions_b # <<>>
\* the two records have the identical date string and amounts within the tolerance;
\* two_cent tells whether amounts exactly 0.02 apart are within it
SameDateAndAmount(trans_a, trans_b, two_cent) ==
    /\ Get(trans_a, "Transaction Date", <<>>) = Get(trans_b, "Transaction Date", <<>>)
    /\ MatchAmount(trans_a) # NoneAmount /\ MatchAmount(trans_b) # NoneAmount
    /\ WithinTolerance(MatchAmount(trans_a), MatchAmount(trans_b), two_cent)
\* the greedy pairing: for the A records from k on, the index of the first B
\* record outside `used` that matches (0 when none), in A's order
RECURSIVE GreedyPairs(_, _, _, _, _)
GreedyPairs(A, B, k, used, two_cent) ==
    IF k > Len(A) THEN <<>>
    ELSE LET c == {j \in DOMAIN B : j \notin used /\ SameDateAndAmount(A[k], B[j], two_cent)}
         IN  IF c = {} THEN <<0>> \o GreedyPairs(A, B, k + 1, used, two_cent)
             ELSE <<SetMin(c)>> \o GreedyPairs(A, B, k + 1, used \cup {SetMin(c)}, two_cent)
PairedA == {k \in DOMAIN last.pairs : last.pairs[k] > 0}
NoSharedB == \A k1 \in PairedA, k2 \in PairedA : k1 # k2 => last.pairs[k1] # last.pairs[k2]
OnePerRecord == Len(last.merged) = Len(last.transactions_a) + Len(last.transactions_b) - Cardinality(PairedA)

\* C11: for any two non-empty lists A and B, cross_reference_transactions
\* matches greedily in A's order: each A record is paired with the first
\* not-yet-matched B record that has the identical date string and an amount
\* within the tolerance (0.02); no B record is paired with more than one A
\* record; the output holds one record per A record plus one per unmatched B
\* record, so its length is |A| + |B| minus the number of pairs.
C11_GreedyMatching ==
    NonEmptyMerge =>
        /\ ~last.raises
        /\ last.pairs = GreedyPairs(last.transactions_a, last.transactions_b, 1, {}, TRUE)
        /\ NoSharedB
        /\ OnePerRecord

\* what the code does: when no exception escapes, the pairing is the greedy one
\* for the comparison abs(float(a) - float(b)) < 0.02 as the floats round
C11_GreedyWhenReturned ==
    NonEmptyMerge /\ ~last.raises =>
        /\ last.pairs = GreedyPairs(last.transactions_a, last.transactions_b, 1, {}, last.two_cent)
        /\ NoSharedB
        /\ OnePerRecord
\* two records of one day, 19.99 and 20.01, are left unpaired
C11_TwoCentsApartUnpaired ==
    /\ NonEmptyMerge /\ ~last.raises /\ ~last.two_cent
    /\ last.transactions_a = <<NoisyWalmart>>
    /\ Get(last.transactions_b[1], "Amount", 0) = 2001 /\ Len(last.transactions_b) = 1
    /\ last.pairs = <<0>>
\* float(None) raises TypeError in the search for a match
C11_Raises == NonEmptyMerge /\ last.raises

DateOf(t) == Get(t, "Transaction Date", <<>>)
\* the date strings never decrease along the list, compared as strings
OrderedByDateString(ts) == \A j, k \in DOMAIN ts : j < k => ~StrLess(DateOf(ts[k]), DateOf(ts[j]))
FromB(r) == r["_extraction_method"] = OnlyLabel(<<"O","C","R">>)
\* r is the record made of the A record a: a's fields, with the description and
\* the label of the merge
MadeOf(r, a) ==
    /\ ~FromB(r)
    /\ \A key \in (DOMAIN a) \ {"Place", "Place_Original"} : key \in DOMAIN r /\ r[key] = a[key]
\* the B records no A record was paired with
UnmatchedB == {k \in DOMAIN last.transactions_b : \A j \in DOMAIN last.pairs : last.pairs[j] # k}
\* the merged records of one date are the A records of that date in A's order,
\* then the unmatched B records of that date in B's order
KeepsMergeOrder(date) ==
    LET m == OnDate(last.merged, date)
        a == OnDate(last.transactions_a, date)
        b == OnDate(last.transactions_b, date) \cap UnmatchedB
    IN  /\ Cardinality(m) = Cardinality(a) + Cardinality(b)
        /\ \A j \in 1..Cardinality(m) :
               IF j <= Cardinality(a)
               THEN MadeOf(last.merged[Nth(m, j)], last.transactions_a[Nth(a, j)])
               ELSE last.merged[Nth(m, j)]
                        = ("_extraction_method" :> OnlyLabel(<<"O","C","R">>))
                          @@ last.transactions_b[Nth(b, j - Cardinality(a))]
DatesOf(ts) == {DateOf(ts[k]) : k \in DOMAIN ts}

\* C18: the list returned by cross_reference_transactions for two non-empty
\* inputs is ordered non-decreasingly by the Transaction Date string compared
\* lexicographically (so "01/05/2025" precedes "12/30/2024"), and records with
\* equal date strings keep their merge order: A-derived records in A's order,
\* then unmatched B records in B's order.
C18_SortedByDateString ==
    (NonEmptyMerge /\ Reconciled) =>
        /\ OrderedByDateString(last.merged)
        /\ \A date \in DatesOf(last.transactions_a) \cup DatesOf(last.transactions_b) : KeepsMergeOrder(date)

\* four records returned: 01/05/2025 first and 12/30/2024 last, between them
\* two records of 03/01/2025, the one of A before the one of B
C18_Witness ==
    /\ NonEmptyMerge /\ Reconciled /\ Len(last.merged) = 4
    /\ DateOf(last.merged[1]) = <<"0","1","/","0","5","/","2","0","2","5">> /\ DateOf(last.merged[4]) = <<"1","2","/","3","0","/","2","0","2","4">>
    /\ DateOf(last.merged[2]) = <<"0","3","/","0","1","/","2","0","2","5">> /\ DateOf(last.merged[3]) = <<"0","3","/","0","1","/","2","0","2","5">>
    /\ ~FromB(last.merged[2]) /\ FromB(last.merged[3])
    /\ FromB(last.merged[1]) /\ ~FromB(last.merged[4])

\* C25: cross_reference_transactions never raises for two non-empty lists of
\* transactions the block parser produced, records with an empty Debits field
\* that share a date with a record of the other list included.
C25_NeverRaises == NonEmptyMerge => ~last.raises
\* a record whose amount for matching is None meets a record of the same date
EmptyAmountCompared ==
    \E j \in DOMAIN last.transactions_a, k \in DOMAIN last.transactions_b :
        /\ DateOf(last.transactions_a[j]) = DateOf(last.transactions_b[k])
        /\ NoneAmount \in {MatchAmount(last.transactions_a[j]), MatchAmount(last.transactions_b[k])}
\* what does hold: the call raises only when float() is handed such a None
C25_RaisesOnlyOnEmptyAmount == (NonEmptyMerge /\ last.raises) => EmptyAmountCompared
\* the deposit of three amounts against the Walmart purchase of the same day
C25_DepositRaises ==
    /\ last.op = "cross_reference" /\ last.raises
    /\ last.transactions_a = <<DepositRecord>> /\ last.transactions_b = <<CleanWalmart>>
(***************************************************************************)
(* classify_transactions on the transactions of one statement.             *)
(***************************************************************************)
StatementPool ==
    {Trans(<<"0","1","/","1","5","/","2","0","2","5">>, <<"W","a","l","m","a","r","t">>, "Amount" :> 4523),
     Trans(<<"1","/","6","/","2","0","2","5">>, <<"A","c","m","e">>, ("Place_Original" :> <<"A","C","M","E"," ","P","A","Y","R","O","L","L">>) @@ ("Debits" :> NoneAmount)
                                    @@ ("Credits" :> 500) @@ ("Balance" :> 10000)),
     Trans(<<"1","/","7","/","2","0","2","5">>, <<"C","a","s","h"," ","A","p","p">>, ("Place_Original" :> <<"C","a","s","h"," ","A","p","p","*","S","a","m","u","e","l">>) @@ ("Amount" :> 2500)),
     Trans(<<"1","/","8","/","2","0","2","5">>, <<"P","a","y","r","o","l","l"," ","D","e","p","o","s","i","t">>, "Amount" :> 150000),
     Trans(<<"0","3","/","0","2","/","2","0","2","5">>, <<"S","h","e","l","l">>, ("Amount" :> 0) @@ ("Balance" :> 700)),
     Trans(<<"1","/","9","/","2","0","2","5">>, <<"R","e","f","u","n","d"," ","C","o">>, ("Debits" :> 1200) @@ ("Credits" :> 300) @@ ("Balance" :> 5000)),
     Trans(<<"1","/","1","0","/","2","0","2","5">>, <<"A","l","d","i">>, ("Debits" :> 1200) @@ ("Credits" :> NoneAmount) @@ ("Balance" :> 3800)),
     Trans(<<"1","/","1","1","/","2","0","2","5">>, <<"A","c","m","e">>, ("Place_Original" :> <<"A","c","m","e"," ","P","a","y","r","o","l","l"," ","0","0","4","2">>) @@ ("Amount" :> 150000)),
     Trans(<<"1","/","1","2","/","2","0","2","5">>, <<"O","p","e","n","i","n","g"," ","E","n","t","r","y">>, ("Debits" :> NoneAmount) @@ ("Credits" :> NoneAmount)
                                              @@ ("Balance" :> 2600))}
\* the longest statement, in transactions
MaxStatement == 3
Statements == UNION {[1..n -> StatementPool] : n \in 0..MaxStatement}
Verdicts == {Raise, Ok(<<" ","I","n","c","o","m","e">>)}

\* the caller holds the transactions of a statement and knows its kind
InitClassifier ==
    /\ merchant_cache = <<>> /\ llm_available \in BOOLEAN
    /\ pdf_converter = FALSE /\ text_extractor = FALSE
    /\ NoLoop
    /\ cache_file = Missing /\ runs = NotRunning
    /\ calls = 0
    /\ last \in {[op |-> "statement", transactions |-> ts, is_bank_account |-> b] :
                    ts \in Statements, b \in BOOLEAN}

ClassifyReturns(outcomes, r) ==
    last' = [op |-> "classify_transactions", transactions |-> last.transactions,
             is_bank_account |-> last.is_bank_account, income |-> r.income, expenses |-> r.expenses,
             requests |-> r.requests, outcomes |-> outcomes]
\* classify_transactions(transactions, is_bank_account) while the model calls it
\* makes end as outcomes says
ClassifyCall ==
    /\ last.op = "statement"
    /\ \E outcomes \in [DOMAIN last.transactions -> Verdicts] :
           ClassifyReturns(outcomes, ClassifyTransactions(last.transactions, last.is_bank_account, llm_available, outcomes))
    /\ Called
    /\ DiskUnchanged
    /\ ObjectUnchanged /\ LoopUnchanged

NextClassifier == ClassifyCall
SpecClassifier == InitClassifier /\ [][NextClassifier]_vars

Classified == last.op = "classify_transactions"
\* t is the input transaction s, with nothing but a review mark added
SameTransaction(t, s) ==
    /\ DOMAIN s \subseteq DOMAIN t /\ DOMAIN t \subseteq DOMAIN s \cup {"_manual_review"}
    /\ \A k \in DOMAIN s : t[k] = s[k]

\* C7: for a credit-card statement (is_bank_account = false)
\* classify_transactions puts every input transaction, whatever its amount
\* fields or text, into the expense list in input order and returns an empty
\* income list.
C7_CreditCardAllExpenses ==
    (Classified /\ ~last.is_bank_account) =>
        /\ last.income = <<>>
        /\ Len(last.expenses) = Len(last.transactions)
        /\ \A k \in DOMAIN last.transactions : SameTransaction(last.expenses[k], last.transactions[k])

\* a credit-card statement with a payroll credit and a payment-app transfer,
\* with the model available and answering "income"
C7_Witness ==
    /\ Classified /\ ~last.is_bank_account /\ llm_available
    /\ Len(last.transactions) = 3
    /\ Positive(last.transactions[1], "Credits") /\ IsPaymentApp(last.transactions[2])
    /\ last.income = <<>> /\ Len(last.expenses) = 3

\* the text before cleaning, upper-cased, holds an income keyword
OriginalHasIncomeKeyword(t) ==
    \E keyword \in income_keywords :
        Contains(Upper(IF "Place_Original" \in DOMAIN t THEN t["Place_Original"] ELSE t["Place"]), keyword)
\* the list the k-th transaction of a bank statement belongs to, "unstated" for a
\* transaction without a positive Credits, Debits or Amount
ListOf(k) ==
    LET t == last.transactions[k]
    IN  IF Positive(t, "Credits") THEN "income"
        ELSE IF Positive(t, "Debits") THEN "expense"
        ELSE IF ~Positive(t, "Amount") THEN "unstated"
        ELSE IF OriginalHasIncomeKeyword(t) THEN "income"
        ELSE IF IsPaymentApp(t) /\ llm_available
             THEN IF Failed(last.outcomes[k]) THEN "expense"
                  ELSE LlmClassifyTransaction(TRUE, last.outcomes[k]).answer
        ELSE "expense"
IndicesOf(list) == {k \in DOMAIN last.transactions : ListOf(k) = list}
\* returned holds the transactions that belong to list, in input order
HoldsExactly(returned, list) ==
    /\ Len(returned) = Cardinality(IndicesOf(list))
    /\ \A j \in DOMAIN returned : SameTransaction(returned[j], last.transactions[Nth(IndicesOf(list), j)])

\* C17: for a bank-account statement, classify_transactions decides each
\* transaction in this order: a positive Credits field gives income (even if
\* Debits is also positive); else a positive Debits field gives expense; else a
\* positive single Amount gives income if the original (pre-clean) text
\* contains an income keyword, otherwise the model's income/expense answer only
\* when the transaction is a payment-app transaction and the model is
\* available (expense on any model failure), otherwise expense.
C17_BankDecisionOrder ==
    (Classified /\ last.is_bank_account) =>
        HoldsExactly(last.income, "income") /\ HoldsExactly(last.expenses, "expense")

\* a bank statement whose first transaction has positive Credits and Debits,
\* whose second is a payment-app transfer the model calls income and whose
\* third is the same transfer with the model call failing
C17_Witness ==
    /\ Classified /\ last.is_bank_account /\ llm_available
    /\ Len(last.transactions) = 3
    /\ Positive(last.transactions[1], "Credits") /\ Positive(last.transactions[1], "Debits")
    /\ IsPaymentApp(last.transactions[2]) /\ ~Failed(last.outcomes[2])
    /\ IsPaymentApp(last.transactions[3]) /\ Failed(last.outcomes[3])
    /\ Len(last.income) = 2 /\ Len(last.expenses) = 1

\* the number of places at which the returned lists hold the k-th input transaction
TimesReturned(k) ==
    Cardinality({j \in DOMAIN last.income : SameTransaction(last.income[j], last.transactions[k])})
    + Cardinality({j \in DOMAIN last.expenses : SameTransaction(last.expenses[j], last.transactions[k])})
TimesGiven(k) == Cardinality({j \in DOMAIN last.transactions : last.transactions[j] = last.transactions[k]})
\* C24: classify_transactions loses and duplicates no transaction: each input
\* transaction is in exactly one of the returned lists, so that
\* |income| + |expenses| = |input|, for either statement type.
C24_NoneLostOrDuplicated ==
    Classified =>
        /\ Len(last.income) + Len(last.expenses) = Len(last.transactions)
        /\ \A k \in DOMAIN last.transactions : TimesReturned(k) = TimesGiven(k)
\* what does hold: nothing is returned twice, and a bank statement loses
\* exactly its transactions without a positive Credits, Debits or Amount
C24_LosesTheUnstated ==
    Classified =>
        /\ \A k \in DOMAIN last.transactions : TimesReturned(k) <= TimesGiven(k)
        /\ Len(last.income) + Len(last.expenses) =
               Len(last.transactions) - (IF last.is_bank_account THEN Cardinality(IndicesOf("unstated")) ELSE 0)
\* a bank statement of a zero amount and of a record with empty Debits and
\* Credits: both lists come back empty
C24_BothDropped ==
    /\ Classified /\ last.is_bank_account /\ Len(last.transactions) = 2
    /\ Get(last.transactions[1], "Amount", NoneAmount) = 0
    /\ Get(last.transactions[2], "Debits", 0) = NoneAmount /\ Get(last.transactions[2], "Credits", 0) = NoneAmount
    /\ last.income = <<>> /\ last.expenses = <<>>
(***************************************************************************)
(* parse_pdf on the documents of a run.                                    *)
(***************************************************************************)
BankHeader == <<"F","I","R","S","T"," ","N","A","T","I","O","N","A","L"," ","B","A","N","K"," ","C","H","E","C","K","I","N","G"," ","A","C","C","O","U","N","T"," ","S","T","A","T","E","M","E","N","T">>
PeriodLine == <<"S","T","A","T","E","M","E","N","T"," ","P","E","R","I","O","D"," ","0","1","/","0","1","/","2","0","2","5"," ","T","H","R","O","U","G","H"," ","0","1","/","3","1","/","2","0","2","5">>
\* a digital statement with one transaction, as pdfplumber reads it
GoodPdfText == <<BankHeader, PeriodLine, <<"T","R","A","N","S","A","C","T","I","O","N","S">>, WalmartLine>>
\* the same statement as OCR reads the page image
GoodOcrText == <<BankHeader, PeriodLine, <<"T","R","A","N","S","A","C","T","I","O","N","S">>, <<"0","1","/","1","5","/","2","0","2","5"," ","W","A","L","M","A","R","T"," ","4","3","5","2"," ","$","4","5",".","2","3">>>>
\* enough text to be used, and no transaction in it
NoActivityText == <<BankHeader, PeriodLine, <<"N","O"," ","A","C","T","I","V","I","T","Y"," ","T","H","I","S"," ","P","E","R","I","O","D">>>>
\* too little text to be used
ScrapText == <<<<"P","a","g","e"," ","1">>>>
PdfTexts == {<<>>, ScrapText, NoActivityText, GoodPdfText}
OcrTexts == {<<>>, NoActivityText, GoodOcrText}
Documents ==
    {Document(text_pdf, text_ocr, tesseract_ok, convert_ok) :
        text_pdf \in PdfTexts, text_ocr \in OcrTexts, tesseract_ok \in BOOLEAN, convert_ok \in BOOLEAN}
\* how many documents one run parses
MaxDocuments == 2

ThisParser == ParserObject(merchant_cache, llm_available, pdf_converter, text_extractor)
ParsePdfReturns(doc, r) ==
    /\ merchant_cache' = r.obj.merchant_cache
    /\ pdf_converter' = r.obj.pdf_converter
    /\ text_extractor' = r.obj.text_extractor
    /\ cache_file' = IF r.saved THEN Entries(r.obj.merchant_cache) ELSE cache_file
    /\ last' = [op |-> "parse_pdf", doc |-> doc, first |-> ~pdf_converter, raises |-> r.raises,
                income |-> r.income, expenses |-> r.expenses, processed |-> r.processed,
                transactions_pdf |-> r.transactions_pdf, transactions_ocr |-> r.transactions_ocr]
\* parse_pdf(pdf_path) on a document for which the environment holds doc.  No two
\* amounts of these documents are two cents apart, and no transaction of theirs
\* is sent to the model for classification.
ParsePdfCall ==
    /\ calls < MaxDocuments
    /\ \E doc \in Documents, svc \in ServicesNow :
           ParsePdfReturns(doc, ParsePdf(ThisParser, doc, svc, FALSE, [k \in 1..2 |-> Raise]))
    /\ Called
    /\ UNCHANGED <<llm_available, runs>>
    /\ LoopUnchanged

NextPdf == ParsePdfCall
InitPdf == Init /\ ~llm_available /\ merchant_cache = <<>>
SpecPdf == InitPdf /\ [][NextPdf]_vars

PdfParsed == last.op = "parse_pdf"
\* structured extraction yields no usable text, and OCR yields no text or no
\* transactions
BothFail ==
    /\ PdfParsed
    /\ ~UsableText(last.doc.text_pdf)
    /\ last.transactions_pdf = <<>> /\ last.transactions_ocr = <<>>

\* C8: when both extraction methods fail to produce usable text for a document
\* (structured extraction yields no text and OCR yields no text or no
\* transactions), parse_pdf raises no exception and returns empty income and
\* expense results.
C8_BothFailNoRaise ==
    BothFail => last.raises = "no" /\ last.income = <<>> /\ last.expenses = <<>>

\* exactly one method yields transactions; the other fails, for whatever reason
OnlyPdfWorks == PdfParsed /\ last.transactions_pdf # <<>> /\ last.transactions_ocr = <<>>
OnlyOcrWorks == PdfParsed /\ last.transactions_pdf = <<>> /\ last.transactions_ocr # <<>>

\* C9: when exactly one extraction method fails, for whatever reason, and the
\* other yields a non-empty transaction list, parse_pdf does not raise and
\* processes exactly the other method's transaction list unmodified, for the
\* first document of a run as well as for later ones.
C9_OneMethodSuffices ==
    /\ OnlyPdfWorks => last.raises = "no" /\ last.processed = last.transactions_pdf
    /\ OnlyOcrWorks => last.raises = "no" /\ last.processed = last.transactions_ocr

\* what holds of the fallback: a document after the first one, or one for which
\* the OCR engine is found, is processed from the method that worked
C9_FallbackWhenEngineFound ==
    (PdfParsed /\ (~last.first \/ last.doc.tesseract_ok)) => C9_OneMethodSuffices
C9_LaterDocumentFallsBack ==
    /\ OnlyPdfWorks /\ ~last.first /\ ~last.doc.tesseract_ok /\ ~text_extractor
    /\ last.raises = "no" /\ last.processed # <<>>

\* with the OCR engine found, the missing 'issues' key of the default validation
\* result is what escapes
C8_KeyErrorEscapes == BothFail /\ last.doc.tesseract_ok /\ last.raises = "KeyError"
(***************************************************************************)
(* extract_text_dual_method on the documents of a run.                     *)
(***************************************************************************)
\* a statement whose one transaction has a two-letter merchant and no amount
\* above zero: the parser emits it and the validator scores the list below 50
PoorPdfText == <<BankHeader, PeriodLine, <<"T","R","A","N","S","A","C","T","I","O","N","S">>, <<"0","1","/","1","5","/","2","0","2","5"," ","B","P","#","1","2","3","4","5","6","7"," ","$","0",".","0","0">>>>
PoorOcrText == <<BankHeader, PeriodLine, <<"T","R","A","N","S","A","C","T","I","O","N","S">>, <<"0","1","/","1","5","/","2","0","2","5"," ","B","P","#","1","2","3","4","5","6","7"," ","$","0",".","0","0"," ","$","0",".","0","0">>>>
ExtractDocuments ==
    {Document(text_pdf, text_ocr, tesseract_ok, TRUE) :
        text_pdf \in {<<>>, NoActivityText, GoodPdfText, PoorPdfText},
        text_ocr \in {<<>>, GoodOcrText, PoorOcrText}, tesseract_ok \in BOOLEAN}
\* how many documents one run extracts
MaxExtractions == 2

ExtractReturns(doc, r) ==
    /\ merchant_cache' = r.obj.merchant_cache
    /\ pdf_converter' = r.obj.pdf_converter
    /\ text_extractor' = r.obj.text_extractor
    /\ last' = [op |-> "extract", doc |-> doc, first |-> ~pdf_converter, raises |-> r.raises,
                method |-> r.method, transactions |-> r.transactions, validation |-> r.validation,
                transactions_pdf |-> r.transactions_pdf, transactions_ocr |-> r.transactions_ocr,
                validation_pdf |-> r.validation_pdf, validation_ocr |-> r.validation_ocr]
\* extract_text_dual_method(pdf_path) on a document for which the environment
\* holds doc.  No two amounts of these documents are two cents apart.
ExtractCall ==
    /\ calls < MaxExtractions
    /\ \E doc \in ExtractDocuments, svc \in ServicesNow :
           ExtractReturns(doc, ExtractTextDualMethod(ThisParser, doc, svc, FALSE))
    /\ Called
    /\ DiskUnchanged
    /\ UNCHANGED llm_available
    /\ LoopUnchanged

NextExtract == ExtractCall
SpecExtract == InitPdf /\ [][NextExtract]_vars

\* both methods ran to their validation
BothValidated == last.op = "extract" /\ last.raises # "RuntimeError"
ScorePdf == last.validation_pdf["score"]
ScoreOcr == last.validation_ocr["score"]
NeitherValid == BothValidated /\ ScorePdf < 50 /\ ScoreOcr < 50
LowQualityOf(method) == method \o <<" ","(","l","o","w"," ","q","u","a","l","i","t","y",")">>
ReturnsBetterMarkedLow ==
    /\ last.raises = "no"
    /\ IF ScorePdf >= ScoreOcr
       THEN /\ last.method = LowQualityOf(<<"p","d","f","p","l","u","m","b","e","r">>)
            /\ last.transactions = last.transactions_pdf /\ last.validation = last.validation_pdf
       ELSE /\ last.method = LowQualityOf(<<"O","C","R">>)
            /\ last.transactions = last.transactions_ocr /\ last.validation = last.validation_ocr

\* C12: when neither extraction method's validation result is valid (both
\* validator scores below 50), extract_text_dual_method does not merge: it
\* returns the transaction list and validation of the method with the higher
\* validator score, with a method label marked "low quality".
C12_NeitherValidLowQuality == NeitherValid => ReturnsBetterMarkedLow

\* what the code does: the low-quality fallback is taken when neither method
\* yields a transaction
C12_NoTransactionsLowQuality ==
    (BothValidated /\ last.transactions_pdf = <<>> /\ last.transactions_ocr = <<>>) => ReturnsBetterMarkedLow
\* both lists are scored below 50 and merged all the same
C12_InvalidListsMerged ==
    /\ NeitherValid /\ last.transactions_pdf # <<>> /\ last.transactions_ocr # <<>>
    /\ last.method = <<"p","d","f","p","l","u","m","b","e","r"," ","+"," ","O","C","R"," ","(","m","e","r","g","e","d",")">> /\ last.validation["valid"]
\* one list is scored below 50 and returned without the mark
C12_InvalidListUnmarked ==
    /\ NeitherValid /\ last.transactions_pdf # <<>> /\ last.transactions_ocr = <<>>
    /\ last.method = <<"p","d","f","p","l","u","m","b","e","r">>
(***************************************************************************)
(* The parser as a whole: every operation that reads or writes the state   *)
(* of the parser object, from the state the constructor leaves.            *)
(***************************************************************************)
Next == NextNormalizer \/ NextParse \/ NextReconciler \/ NextPdf
Spec == Init /\ [][Next]_vars
=============================================================================
